---- MODULE Spec2Model ----
(***************************************************************************)
(* Data access and realtime-update layer of the operations dashboard:      *)
(*   - the WebSocket client (services/wsClient.js) and the live provider   *)
(*     that relays its frames (services/liveProvider.js),                  *)
(*   - the mock provider's interval emitter (services/mockProvider.js),    *)
(*   - the REST client's requestJson / uploadFormData (httpClient.js).     *)
(* Each component has its own specification over the shared variable list; *)
(* the variables of the other components stay at their initial values.     *)
(***************************************************************************)
EXTENDS Integers, Sequences, FiniteSets, TLC

----------------------------------------------------------------------------
(* Bounds of the exploration *)

MaxSockets == 3
MaxTimers == 3
MaxRelays == 3
NumCallbacks == 2
MaxDsCalls == 2
MaxFiles == 9
MaxItems == 2
MaxDeviceId == 2
MaxSubs == 2
MaxDisposals == 2

NumMockCallbacks == 3
----------------------------------------------------------------------------
(* WebSocket client + live provider state *)

VARIABLES
    viaProvider,       \* TRUE: the client is the private one of createLiveProvider
    reconnect,         \* opts.reconnect !== false
    ws,                \* index into socks of the current socket, 0 = null
    socks,             \* readyState of every WebSocket object constructed so far
    connected,
    shouldReconnect,
    reconnectAttempt,
    reconnectTimer,    \* handle of the pending reconnect timeout, 0 = null
    timers,            \* window timeouts of this client that are still pending
    timerSeq,          \* last handle handed out by window.setTimeout
    reconnectDelay,    \* delay given to the latest window.setTimeout, in ms
    listeners,         \* Set of listener closures (indices into relays)
    relays,            \* relay closure i forwards to callback relays[i]
    unsubWs,           \* disposer held by the provider: the relay it removes, 0 = null
    emitted,           \* events dispatched by emit() during the last step
    baseDelay,         \* opts.reconnectBaseDelayMs ?? 700
    maxDelay,          \* opts.reconnectMaxDelayMs ?? 10_000
    throwers,          \* callbacks that throw when they are invoked
    disposers,         \* disposer i, returned by the i-th subscribe(cb), removes disposers[i]
    disposed,          \* history: the disposers called so far, in order
    revoked,           \* history: relays registered before the latest unsubscribe()
    lifecycle,         \* history: "fresh", "closed" by close(), "reopened" by a later connect()
    last               \* history: the operation or event of the last step

wsVars == <<viaProvider, reconnect, ws, socks, connected, shouldReconnect,
            reconnectAttempt, reconnectTimer, timers, timerSeq, reconnectDelay,
            listeners, relays, unsubWs, emitted, baseDelay, maxDelay,
            throwers, disposers, disposed,
            revoked, lifecycle, last>>

\* mock provider state
VARIABLES
    intervalId,        \* handle of the emitter's interval, 0 = null
    intervals,         \* window intervals of this provider that are still active
    intervalSeq,       \* last handle handed out by window.setInterval
    subs,              \* Set of registered callbacks
    mockDelivered,     \* callbacks invoked by the last interval tick
    mockRevoked,       \* history: callbacks cleared by unsubscribe() and not registered since
    startsSinceClear,  \* history: emitter starts since the latest unsubscribe()
    mockLast           \* history: the operation of the last step

mockVars == <<intervalId, intervals, intervalSeq, subs, mockDelivered,
              mockRevoked, startsSinceClear, mockLast>>

\* state of one REST call
VARIABLES
    rKind,             \* "requestJson" or "uploadFormData"
    rPc,               \* "idle", "fetch", "body", "sleep", "done"
    retries,           \* options.retries
    hasSignal,         \* options.signal was supplied
    extAborted,        \* options.signal.aborted
    extListeners,      \* attempts whose onAbort listener is attached to options.signal
    attempt,
    timeoutArmed,      \* the attempt's window.setTimeout is pending
    combined,          \* abort reason of combinedSignal: "none", "timeout", "abort"
    respStatus,        \* status of the response being read, 0 = none
    lastErr,
    outcome,           \* how the returned promise settled
    fetches,           \* history: number of fetch() calls
    fetchAfterAbort,   \* history: fetch() was called while options.signal was aborted
    failures,          \* history: the error of each failed attempt
    sleeps,            \* history: the backoff delays slept, in ms
    rPayload           \* history: the payload read from the latest response

\* normalizeError called on its own
VARIABLES
    nErr,              \* the raw error
    nStatus,           \* context.status, 0 when it is undefined
    nResult,           \* the NormalizedError returned
    nDone              \* normalizeError has returned

\* the headers of a request of the REST client, computed on their own
VARIABLES
    fn,                \* the function called
    fArgs,             \* its arguments
    fResult,           \* what it returned, "" before it returns
    fDone              \* it has returned

pureVars == <<fn, fArgs, fResult, fDone>>

\* the runtime configuration (config/index.js) and the data service built on it
VARIABLES
    envFlags,          \* process.env.REACT_APP_FEATURE_FLAGS
    envLogLevel,       \* process.env.REACT_APP_LOG_LEVEL
    envNodeEnv,        \* process.env.REACT_APP_NODE_ENV and process.env.NODE_ENV
    cfgBuilt,          \* buildConfig() has run
    featureFlags,      \* config.featureFlags
    logLevel,          \* config.logLevel
    nodeEnv,           \* config.nodeEnv
    dsMode,            \* dataService.mode, "none" before createDataService()
    dsCalls,           \* number of calls made through the data service
    dsLast             \* the last method called through it

cfgVars == <<envFlags, envLogLevel, envNodeEnv, cfgBuilt, featureFlags, logLevel,
             nodeEnv, dsMode, dsCalls, dsLast>>

\* one call of the mock provider's uploadLogs(files, onProgress)
VARIABLES
    uFiles,            \* files.length
    uOnProgress,       \* an onProgress callback was passed
    uI,                \* the loop variable i
    uPc,               \* "idle", "sleeping" (awaiting the 200 ms timer) or "done"
    uProgress,         \* history: the percentages passed to onProgress
    uResult            \* what the promise resolved with

uplVars == <<uFiles, uOnProgress, uI, uPc, uProgress, uResult>>

\* UploadPage: the item list and one run of uploadAll()
VARIABLES
    pgItems,           \* the items state: status and validity of each item
    pgSnapshot,        \* items as the running uploadAll() closure sees it
    pgOverall,         \* the overallStatus state
    pgPageError,       \* the pageError state is set
    pgValid,           \* valid: the indices uploadAll() uploads, in order
    pgK,               \* position of the loop in pgValid
    pgPc,              \* "ready", "awaiting" (an upload), "returned" or "finished"
    pgFailed,          \* history: the items whose upload failed in this run
    pgNewRecents       \* newRecents.length

pageVars == <<pgItems, pgSnapshot, pgOverall, pgPageError, pgValid, pgK, pgPc,
              pgFailed, pgNewRecents>>

\* DashboardHome and LiveTrackingPage: the mount effect and the device list
VARIABLES
    mtPage,            \* the page that is mounted
    mtPc,              \* boot(): the await it is at, "done" or "returned"
    cancelled,         \* the effect's cancelled flag
    subscribedRef,     \* subscribedRef.current (DashboardHome)
    pollTimerRef,      \* pollTimerRef.current holds an interval (LiveTrackingPage)
    subscribed,        \* the data service holds the page's callback
    devices,           \* the devices state
    cleanedUp,         \* the effect's cleanup has run
    startedLate,       \* history: what boot() started after the cleanup
    lastUpdate         \* history: the last event given to the callback

mountVars == <<mtPage, mtPc, cancelled, subscribedRef, pollTimerRef, subscribed,
               devices, cleanedUp, startedLate, lastUpdate>>

\* the components next to the clients and providers
extVars == <<pureVars, cfgVars, uplVars, pageVars, mountVars>>

normVars == <<nErr, nStatus, nResult, nDone>>

restVars == <<rKind, rPc, retries, hasSignal, extAborted, extListeners, attempt,
              timeoutArmed, combined, respStatus, lastErr, outcome, fetches,
              fetchAfterAbort, failures, sleeps, rPayload>>

\* the options of the client, and what only its direct subscribers change
subVars == <<baseDelay, maxDelay, throwers, disposers, disposed>>

coreVars == <<wsVars, mockVars, restVars, normVars>>

vars == <<wsVars, mockVars, restVars, normVars, extVars>>

\* config.wsUrl always resolves to a non-empty string, opts.url || config.wsUrl
url == "ws://localhost:8000/ws"

St ==
    [ws |-> ws, socks |-> socks, connected |-> connected,
     shouldReconnect |-> shouldReconnect, reconnectAttempt |-> reconnectAttempt,
     reconnectTimer |-> reconnectTimer, timers |-> timers, timerSeq |-> timerSeq,
     delay |-> reconnectDelay, listeners |-> listeners, emitted |-> <<>>,
     thrown |-> FALSE]

Apply(c) ==
    /\ ws' = c.ws
    /\ socks' = c.socks
    /\ connected' = c.connected
    /\ shouldReconnect' = c.shouldReconnect
    /\ reconnectAttempt' = c.reconnectAttempt
    /\ reconnectTimer' = c.reconnectTimer
    /\ timers' = c.timers
    /\ timerSeq' = c.timerSeq
    /\ reconnectDelay' = c.delay
    /\ listeners' = c.listeners
    /\ emitted' = c.emitted

Bounded(c) ==
    /\ Len(c.socks) <= MaxSockets
    /\ c.timerSeq <= MaxTimers

\* the defaults of opts.reconnectBaseDelayMs and opts.reconnectMaxDelayMs
DefaultBaseDelay == 700
DefaultMaxDelay == 10000

Min(a, b) == IF a <= b THEN a ELSE b

\* an event object; data is "none", "raw", "parsed" or "parsed.data"
Event(type, data) == [type |-> type, data |-> data]

\* listener l throws on this event: a relay of the live provider calls its
\* callback for device:update only, a direct listener is the callback itself
Throws(l, event) ==
    IF viaProvider
    THEN event.type = "device:update" /\ relays[l] \in throwers
    ELSE l \in throwers

\* variant: no try/catch around cb(event); listeners run in ascending order
emit_noCatch(c, event) ==
    LET threw == {l \in c.listeners : Throws(l, event)} IN
    LET to == {l \in c.listeners : \A t \in threw : l <= t} IN
    [c EXCEPT !.emitted = Append(@, [type |-> event.type, data |-> event.data,
                                     to |-> to, threw |-> to \cap threw]),
              !.thrown = @ \/ threw # {}]

\* for (const cb of listeners) try { cb(event) } catch (e) { logger.warn(...) }
emit(c, event) ==
    [c EXCEPT !.emitted = Append(@, [type |-> event.type, data |-> event.data,
                                     to |-> c.listeners,
                                     threw |-> {l \in c.listeners : Throws(l, event)}])]

\* variant: the "if (reconnectTimer) return" guard is missing
scheduleReconnect_noGuard(c) ==
    IF ~c.shouldReconnect THEN c
    ELSE [c EXCEPT !.reconnectAttempt = @ + 1,
                   !.delay = Min(maxDelay, baseDelay * (1 + (c.reconnectAttempt + 1))),
                   !.reconnectTimer = c.timerSeq + 1,
                   !.timers = @ \cup {c.timerSeq + 1},
                   !.timerSeq = @ + 1]


\* variant: reconnection gives up after two consecutive failures
scheduleReconnect_givesUp(c) ==
    IF ~c.shouldReconnect THEN c
    ELSE IF c.reconnectTimer # 0 THEN c
    ELSE IF c.reconnectAttempt >= 2 THEN c
    ELSE [c EXCEPT !.reconnectAttempt = @ + 1,
                   !.delay = Min(maxDelay, baseDelay * (1 + (c.reconnectAttempt + 1))),
                   !.reconnectTimer = c.timerSeq + 1,
                   !.timers = @ \cup {c.timerSeq + 1},
                   !.timerSeq = @ + 1]

\* variant: the delay is computed before the counter is incremented
scheduleReconnect_delayFirst(c) ==
    IF ~c.shouldReconnect THEN c
    ELSE IF c.reconnectTimer # 0 THEN c
    ELSE [c EXCEPT !.reconnectAttempt = @ + 1,
                   !.delay = Min(maxDelay, baseDelay * (1 + c.reconnectAttempt)),
                   !.reconnectTimer = c.timerSeq + 1,
                   !.timers = @ \cup {c.timerSeq + 1},
                   !.timerSeq = @ + 1]

scheduleReconnect(c) ==
    IF ~c.shouldReconnect THEN c
    ELSE IF c.reconnectTimer # 0 THEN c
    ELSE [c EXCEPT !.reconnectAttempt = @ + 1,
                   !.delay = Min(maxDelay, baseDelay * (1 + (c.reconnectAttempt + 1))),
                   !.reconnectTimer = c.timerSeq + 1,
                   !.timers = @ \cup {c.timerSeq + 1},
                   !.timerSeq = @ + 1]

clearReconnectTimer(c) ==
    IF c.reconnectTimer = 0 THEN c
    ELSE [c EXCEPT !.timers = @ \ {c.reconnectTimer},
                   !.reconnectTimer = 0]

\* variant: connect() without the open/connecting early return
connect_noEarlyReturn(c, ctorThrows) ==
    IF url = "" THEN c
    ELSE LET c1 == clearReconnectTimer(c) IN
         IF ctorThrows
         THEN LET c2 == emit(c1, Event("error", "none")) IN
              IF c2.thrown THEN c2 ELSE scheduleReconnect(c2)
         ELSE [c1 EXCEPT !.socks = Append(@, "CONNECTING"),
                         !.ws = Len(c1.socks) + 1]


\* ctorThrows: new WebSocket(url) throws
connect(c, ctorThrows) ==
    IF url = "" THEN c
    ELSE IF c.ws # 0 /\ c.socks[c.ws] \in {"OPEN", "CONNECTING"} THEN c
    ELSE LET c1 == clearReconnectTimer(c) IN
         IF ctorThrows
         THEN LET c2 == emit(c1, Event("error", "none")) IN
              IF c2.thrown THEN c2 ELSE scheduleReconnect(c2)
         ELSE [c1 EXCEPT !.socks = Append(@, "CONNECTING"),
                         !.ws = Len(c1.socks) + 1]

\* variant: close() leaves shouldReconnect as it is
close_keepsReconnect(c) ==
    LET c1 == clearReconnectTimer(c) IN
    LET c2 == IF c1.ws # 0
              THEN [c1 EXCEPT !.socks[c1.ws] = (IF (@) \in {"OPEN", "CONNECTING"} THEN "CLOSING" ELSE (@))]
              ELSE c1 IN
    [c2 EXCEPT !.ws = 0, !.connected = FALSE]


close(c) ==
    LET c1 == clearReconnectTimer([c EXCEPT !.shouldReconnect = FALSE]) IN
    LET c2 == IF c1.ws # 0
              THEN [c1 EXCEPT !.socks[c1.ws] = (IF (@) \in {"OPEN", "CONNECTING"} THEN "CLOSING" ELSE (@))]
              ELSE c1 IN
    [c2 EXCEPT !.ws = 0, !.connected = FALSE]

onopen(c) ==
    emit([c EXCEPT !.connected = TRUE, !.reconnectAttempt = 0], Event("open", "none"))

onerror(c) == emit(c, Event("error", "none"))

\* a statement after emit() runs only when emit() returned normally
onclose(c) ==
    LET c1 == emit([c EXCEPT !.connected = FALSE], Event("close", "none")) IN
    IF c1.thrown THEN c1
    ELSE IF c1.shouldReconnect THEN scheduleReconnect(c1) ELSE c1

\* evt.data of an incoming frame: text or not, whether JSON.parse accepts it,
\* the kind of the parsed value, its type field ("absent" when it has none,
\* "" when it is falsy) and whether it has a non-null data field
Frame(isString, parses, kind, type, hasData) ==
    [isString |-> isString, parses |-> parses, kind |-> kind, type |-> type,
     hasData |-> hasData]

\* variant: type: parsed.type, without the || "message" fallback
onmessage_noTypeFallback(c, frame) ==
    IF (frame.isString /\ frame.parses /\ frame.kind \in {"object", "array"})
    THEN emit(c, Event(frame.type,
                       IF frame.hasData THEN "parsed.data" ELSE "parsed"))
    ELSE emit(c, Event("message", "raw"))

onmessage(c, frame) ==
    IF (frame.isString /\ frame.parses /\ frame.kind \in {"object", "array"})
    THEN emit(c, Event(IF frame.type \in {"absent", ""} THEN "message" ELSE frame.type,
                       IF frame.hasData THEN "parsed.data" ELSE "parsed"))
    ELSE emit(c, Event("message", "raw"))

subscribe(c, l) == [c EXCEPT !.listeners = @ \cup {l}]

\* variant: the disposer empties the listener set
dispose_clearsAll(c, l) == [c EXCEPT !.listeners = {}]

\* () => listeners.delete(cb)
dispose(c, l) == [c EXCEPT !.listeners = @ \ {l}]

----------------------------------------------------------------------------
(* Steps of the WebSocket client *)

InitWs ==
    /\ viaProvider \in BOOLEAN
    /\ reconnect \in BOOLEAN
    /\ viaProvider => reconnect
    /\ ws = 0
    /\ socks = <<>>
    /\ connected = FALSE
    /\ shouldReconnect = reconnect
    /\ reconnectAttempt = 0
    /\ reconnectTimer = 0
    /\ timers = {}
    /\ timerSeq = 0
    /\ reconnectDelay = 0
    /\ listeners = {}
    /\ relays = <<>>
    /\ unsubWs = 0
    /\ emitted = <<>>
    /\ revoked = {}
    /\ lifecycle = "fresh"
    /\ last = [op |-> "init", sock |-> 0]

Connect ==
    /\ ~viaProvider
    /\ \E ctorThrows \in BOOLEAN :
          LET c == connect(St, ctorThrows) IN
          /\ Bounded(c)
          /\ Apply(c)
    /\ lifecycle' = IF lifecycle = "fresh" THEN "fresh" ELSE "reopened"
    /\ last' = [op |-> "connect", sock |-> ws']
    /\ UNCHANGED <<viaProvider, reconnect, relays, unsubWs, revoked,
                   subVars, mockVars, restVars, normVars, extVars>>

Close ==
    /\ ~viaProvider
    /\ Apply(close(St))
    /\ lifecycle' = "closed"
    /\ last' = [op |-> "close", sock |-> ws]
    /\ UNCHANGED <<viaProvider, reconnect, relays, unsubWs, revoked,
                   subVars, mockVars, restVars, normVars, extVars>>

SocketOpen(s) ==
    /\ socks[s] = "CONNECTING"
    /\ Apply(onopen([St EXCEPT !.socks[s] = "OPEN"]))
    /\ last' = [op |-> "onopen", sock |-> s]
    /\ UNCHANGED <<viaProvider, reconnect, relays, unsubWs, revoked, lifecycle,
                   subVars, mockVars, restVars, normVars, extVars>>

\* the peer starts the closing handshake: readyState becomes CLOSING, no event
SocketClosing(s) ==
    /\ socks[s] = "OPEN"
    /\ Apply([St EXCEPT !.socks[s] = "CLOSING"])
    /\ last' = [op |-> "closing", sock |-> s]
    /\ UNCHANGED <<viaProvider, reconnect, relays, unsubWs, revoked, lifecycle,
                   subVars, mockVars, restVars, normVars, extVars>>

\* the connection is gone: an error event (when it failed) and the close event
SocketClosed(s) ==
    /\ socks[s] # "CLOSED"
    /\ \E failed \in BOOLEAN :
          LET c0 == [St EXCEPT !.socks[s] = "CLOSED"] IN
          LET c == onclose(IF failed THEN onerror(c0) ELSE c0) IN
          /\ Bounded(c)
          /\ Apply(c)
    /\ last' = [op |-> "onclose", sock |-> s]
    /\ UNCHANGED <<viaProvider, reconnect, relays, unsubWs, revoked, lifecycle,
                   subVars, mockVars, restVars, normVars, extVars>>

SocketMessage(s) ==
    /\ socks[s] = "OPEN"
    /\ \E frame \in (
            {Frame(FALSE, FALSE, "none", "absent", FALSE),
             Frame(TRUE, FALSE, "none", "absent", FALSE),
             Frame(TRUE, TRUE, "primitive", "absent", FALSE),
             Frame(TRUE, TRUE, "null", "absent", FALSE),
             Frame(TRUE, TRUE, "array", "absent", FALSE)}
            \cup {Frame(TRUE, TRUE, "object", t, d) :
                     t \in {"absent", "", "device:update", "custom"}, d \in BOOLEAN}) :
          /\ Apply(onmessage(St, frame))
          /\ last' = [op |-> "onmessage", sock |-> s, frame |-> frame]
    /\ UNCHANGED <<viaProvider, reconnect, relays, unsubWs, revoked, lifecycle,
                   subVars, mockVars, restVars, normVars, extVars>>

\* window.setTimeout callback of scheduleReconnect
TimerFire(t) ==
    /\ \E ctorThrows \in BOOLEAN :
          LET c0 == [St EXCEPT !.timers = @ \ {t}, !.reconnectTimer = 0] IN
          LET c == connect(c0, ctorThrows) IN
          /\ Bounded(c)
          /\ Apply(c)
    /\ last' = [op |-> "timer", sock |-> ws']
    /\ UNCHANGED <<viaProvider, reconnect, relays, unsubWs, revoked, lifecycle,
                   subVars, mockVars, restVars, normVars, extVars>>

----------------------------------------------------------------------------
(* Steps of the live provider *)

subscribeToDeviceUpdates(callback) ==
    /\ viaProvider
    /\ Len(relays) < MaxRelays
    /\ \E ctorThrows \in BOOLEAN :
          LET c == subscribe(connect(St, ctorThrows), Len(relays) + 1) IN
          /\ Bounded(c)
          /\ Apply(c)
    /\ relays' = Append(relays, callback)
    /\ unsubWs' = Len(relays) + 1
    /\ lifecycle' = IF lifecycle = "fresh" THEN "fresh" ELSE "reopened"
    /\ last' = [op |-> "subscribe", sock |-> ws']
    /\ UNCHANGED <<viaProvider, reconnect, revoked, subVars, mockVars, restVars, normVars, extVars>>

unsubscribe ==
    /\ viaProvider
    /\ LET c0 == IF unsubWs # 0 THEN dispose(St, unsubWs) ELSE St IN
       Apply(close(c0))
    /\ unsubWs' = 0
    /\ revoked' = 1..Len(relays)
    /\ lifecycle' = "closed"
    /\ last' = [op |-> "unsubscribe", sock |-> ws]
    /\ UNCHANGED <<viaProvider, reconnect, relays, subVars, mockVars, restVars, normVars, extVars>>

\* client.subscribe(cb) by a direct user of the client
WsSubscribe(cb) ==
    /\ ~viaProvider
    /\ Len(disposers) < MaxSubs
    /\ Apply(subscribe(St, cb))
    /\ disposers' = Append(disposers, cb)
    /\ last' = [op |-> "wsSubscribe", sock |-> ws]
    /\ UNCHANGED <<viaProvider, reconnect, relays, unsubWs, revoked, lifecycle,
                   baseDelay, maxDelay, throwers, disposed, mockVars, restVars, normVars, extVars>>

\* the disposer returned by the i-th subscribe is called
WsDispose(i) ==
    /\ ~viaProvider
    /\ Len(disposed) < MaxDisposals
    /\ Apply(dispose(St, disposers[i]))
    /\ disposed' = Append(disposed, i)
    /\ last' = [op |-> "wsDispose", sock |-> ws]
    /\ UNCHANGED <<viaProvider, reconnect, relays, unsubWs, revoked, lifecycle,
                   baseDelay, maxDelay, throwers, disposers, mockVars, restVars, normVars, extVars>>

NextWs ==
    \/ Connect
    \/ Close
    \/ \E s \in 1..Len(socks) : SocketOpen(s)
    \/ \E s \in 1..Len(socks) : SocketClosing(s)
    \/ \E s \in 1..Len(socks) : SocketClosed(s)
    \/ \E s \in 1..Len(socks) : SocketMessage(s)
    \/ \E t \in timers : TimerFire(t)
    \/ \E cb \in (1..NumCallbacks) : subscribeToDeviceUpdates(cb)
    \/ unsubscribe

\* the client alone
NextWsClient ==
    \/ Connect
    \/ Close
    \/ \E s \in 1..Len(socks) : SocketOpen(s)
    \/ \E s \in 1..Len(socks) : SocketClosing(s)
    \/ \E s \in 1..Len(socks) : SocketClosed(s)
    \/ \E s \in 1..Len(socks) : SocketMessage(s)
    \/ \E t \in timers : TimerFire(t)

\* the client with direct subscribers, which its owner never closes
NextWsSub ==
    \/ Connect
    \/ \E s \in 1..Len(socks) : SocketOpen(s)
    \/ \E s \in 1..Len(socks) : SocketClosed(s)
    \/ \E s \in 1..Len(socks) : SocketMessage(s)
    \/ \E t \in timers : TimerFire(t)
    \/ \E cb \in (1..NumCallbacks) : WsSubscribe(cb)
    \/ \E i \in 1..Len(disposers) : WsDispose(i)

----------------------------------------------------------------------------
(* Mock provider: the interval-driven device-update emitter *)

MaxIntervals == 4


Mk ==
    [intervalId |-> intervalId, intervals |-> intervals,
     intervalSeq |-> intervalSeq, subs |-> subs, starts |-> startsSinceClear]

MockApply(m) ==
    /\ intervalId' = m.intervalId
    /\ intervals' = m.intervals
    /\ intervalSeq' = m.intervalSeq
    /\ subs' = m.subs
    /\ startsSinceClear' = m.starts

\* variant: the "if (intervalId) return" guard is missing
startEmittingUpdates_noGuard(m) ==
    [m EXCEPT !.intervalId = m.intervalSeq + 1,
              !.intervals = @ \cup {m.intervalSeq + 1},
              !.intervalSeq = @ + 1,
              !.starts = @ + 1]


startEmittingUpdates(m) ==
    IF m.intervalId # 0 THEN m
    ELSE [m EXCEPT !.intervalId = m.intervalSeq + 1,
                   !.intervals = @ \cup {m.intervalSeq + 1},
                   !.intervalSeq = @ + 1,
                   !.starts = @ + 1]

stopEmittingUpdates(m) ==
    IF m.intervalId = 0 THEN m
    ELSE [m EXCEPT !.intervals = @ \ {m.intervalId},
                   !.intervalId = 0]

mockSubscribeToDeviceUpdates(m, callback) ==
    startEmittingUpdates([m EXCEPT !.subs = @ \cup {callback}])

\* variant: unsubscribe() stops the emitter but keeps the subscriber set
mockUnsubscribe_keepsSubs(m) == stopEmittingUpdates(m)


mockUnsubscribe(m) ==
    stopEmittingUpdates([m EXCEPT !.subs = {}])

InitMock ==
    /\ intervalId = 0
    /\ intervals = {}
    /\ intervalSeq = 0
    /\ subs = {}
    /\ mockDelivered = {}
    /\ mockRevoked = {}
    /\ startsSinceClear = 0
    /\ mockLast = "init"

MockSubscribe(callback) ==
    /\ LET m == mockSubscribeToDeviceUpdates(Mk, callback) IN
       /\ m.intervalSeq <= MaxIntervals
       /\ MockApply(m)
    /\ mockRevoked' = mockRevoked \ {callback}
    /\ mockDelivered' = {}
    /\ mockLast' = "subscribe"
    /\ UNCHANGED <<wsVars, restVars, normVars, extVars>>

MockUnsubscribe ==
    /\ MockApply([mockUnsubscribe(Mk) EXCEPT !.starts = 0])
    /\ mockRevoked' = mockRevoked \cup subs
    /\ mockDelivered' = {}
    /\ mockLast' = "unsubscribe"
    /\ UNCHANGED <<wsVars, restVars, normVars, extVars>>

\* the setInterval callback: for (const cb of subs) cb(evt)
MockTick(i) ==
    /\ mockDelivered' = subs
    /\ mockLast' = "tick"
    /\ UNCHANGED <<intervalId, intervals, intervalSeq, subs, mockRevoked,
                   startsSinceClear, wsVars, restVars, normVars, extVars>>

NextMock ==
    \/ \E cb \in (1..NumMockCallbacks) : MockSubscribe(cb)
    \/ MockUnsubscribe
    \/ \E i \in intervals : MockTick(i)

----------------------------------------------------------------------------
(* REST client: normalizeError *)

\* messages are sequences of characters, so that includes("timeout") is computed
Chars(text) ==
    CASE text = "timeout" -> <<"t","i","m","e","o","u","t">>
      [] text = "Timeout!" -> <<"T","i","m","e","o","u","t","!">>
      [] text = "failed" -> <<"f","a","i","l","e","d">>
      [] text = "boom" -> <<"b","o","o","m">>
      [] text = "Unknown error" -> <<"U","n","k","n","o","w","n"," ","e","r","r","o","r">>
      [] text = "Request aborted" -> <<"R","e","q","u","e","s","t"," ","a","b","o","r","t","e","d">>
      [] text = "Network error" -> <<"N","e","t","w","o","r","k"," ","e","r","r","o","r">>
      [] text = "HTTP" -> <<"H","T","T","P">>
      [] text = "nope" -> <<"n","o","p","e">>
      [] text = "Upload failed" -> <<"U","p","l","o","a","d"," ","f","a","i","l","e","d">>
      [] text = "abort" -> <<"a","b","o","r","t">>

toLowerCase(m) ==
    [i \in 1..Len(m) |->
        CASE m[i] = "T" -> "t"
          [] m[i] = "U" -> "u"
          [] m[i] = "R" -> "r"
          [] m[i] = "N" -> "n"
          [] m[i] = "H" -> "h"
          [] m[i] = "P" -> "p"
          [] OTHER -> m[i]]

includes(m, pat) ==
    \E i \in 0..(Len(m) - Len(pat)) :
        \A j \in 1..Len(pat) : m[i + j] = pat[j]

\* shapes of the values that can be thrown inside the try blocks
ErrorObj(msg) ==
    [obj |-> TRUE, name |-> "Error", isError |-> TRUE, isTypeError |-> FALSE,
     isString |-> FALSE, message |-> msg, code |-> "", status |-> 0,
     retriable |-> FALSE]

TypeErrorObj(msg) == [ErrorObj(msg) EXCEPT !.name = "TypeError", !.isTypeError = TRUE]

\* DOMException "AbortError": inherits the legacy numeric code attribute (20)
DomAbortError == [ErrorObj(Chars("abort")) EXCEPT !.name = "AbortError", !.code = "20"]

\* AbortError of a fetch/AbortController polyfill: an Error named AbortError
PolyAbortError == [ErrorObj(Chars("abort")) EXCEPT !.name = "AbortError"]

\* { message, payload }: a plain object
PlainObj(msg) == [ErrorObj(msg) EXCEPT !.name = "", !.isError = FALSE]

\* a string that was thrown
StringErr(msg) ==
    [ErrorObj(msg) EXCEPT !.obj = FALSE, !.name = "", !.isError = FALSE,
                          !.isString = TRUE]

\* null or undefined
NullErr == [ErrorObj(<<>>) EXCEPT !.obj = FALSE, !.name = "", !.isError = FALSE]

\* a NormalizedError seen as a thrown value
AsRaw(n) ==
    [obj |-> TRUE, name |-> "", isError |-> FALSE, isTypeError |-> FALSE,
     isString |-> FALSE, message |-> n.message, code |-> n.code,
     status |-> n.status, retriable |-> n.retriable]

\* a thrown value that already has a "code" property, used as a NormalizedError
AsNormalized(err) ==
    [code |-> err.code, message |-> err.message, status |-> err.status,
     retriable |-> err.retriable]

\* variant: the "timeout" heuristic on the message is missing
normalizeError_noTimeoutHeuristic(err, status) ==
    IF err.obj /\ err.name = "AbortError"
    THEN [code |-> "ABORTED", message |-> Chars("Request aborted"), status |-> status,
          retriable |-> FALSE]
    ELSE LET message == IF err.isError THEN err.message
                        ELSE IF err.isString THEN err.message
                        ELSE Chars("Unknown error") IN
         IF status # 0
         THEN [code |-> "HTTP", message |-> message, status |-> status,
               retriable |-> (status >= 500 \/ status = 429)]
         ELSE IF err.isTypeError
         THEN [code |-> "NETWORK",
               message |-> IF message = <<>> THEN Chars("Network error") ELSE message,
               status |-> 0, retriable |-> TRUE]
         ELSE [code |-> "UNKNOWN", message |-> message, status |-> 0,
               retriable |-> FALSE]

\* variant: the TypeError test comes before the "timeout" heuristic
normalizeError_networkFirst(err, status) ==
    IF err.obj /\ err.name = "AbortError"
    THEN [code |-> "ABORTED", message |-> Chars("Request aborted"), status |-> status,
          retriable |-> FALSE]
    ELSE LET message == IF err.isError THEN err.message
                        ELSE IF err.isString THEN err.message
                        ELSE Chars("Unknown error") IN
         IF status # 0
         THEN [code |-> "HTTP", message |-> message, status |-> status,
               retriable |-> (status >= 500 \/ status = 429)]
         ELSE IF err.isTypeError
         THEN [code |-> "NETWORK",
               message |-> IF message = <<>> THEN Chars("Network error") ELSE message,
               status |-> 0, retriable |-> TRUE]
         ELSE IF includes(toLowerCase(message), Chars("timeout"))
         THEN [code |-> "TIMEOUT", message |-> message, status |-> 0,
               retriable |-> TRUE]
         ELSE [code |-> "UNKNOWN", message |-> message, status |-> 0,
               retriable |-> FALSE]

\* status 0 stands for context.status === undefined
normalizeError(err, status) ==
    IF err.obj /\ err.name = "AbortError"
    THEN [code |-> "ABORTED", message |-> Chars("Request aborted"), status |-> status,
          retriable |-> FALSE]
    ELSE LET message == IF err.isError THEN err.message
                        ELSE IF err.isString THEN err.message
                        ELSE Chars("Unknown error") IN
         IF status # 0
         THEN [code |-> "HTTP", message |-> message, status |-> status,
               retriable |-> (status >= 500 \/ status = 429)]
         ELSE IF includes(toLowerCase(message), Chars("timeout"))
         THEN [code |-> "TIMEOUT", message |-> message, status |-> 0,
               retriable |-> TRUE]
         ELSE IF err.isTypeError
         THEN [code |-> "NETWORK",
               message |-> IF message = <<>> THEN Chars("Network error") ELSE message,
               status |-> 0, retriable |-> TRUE]
         ELSE [code |-> "UNKNOWN", message |-> message, status |-> 0,
               retriable |-> FALSE]

InitNorm ==
    /\ nErr \in (
            {ErrorObj(Chars("boom")), ErrorObj(Chars("timeout")), ErrorObj(Chars("Timeout!")),
             TypeErrorObj(Chars("failed")), TypeErrorObj(Chars("Timeout!")), TypeErrorObj(<<>>),
             DomAbortError, PolyAbortError, ([PlainObj(Chars("abort")) EXCEPT !.name = "AbortError"]),
             PlainObj(Chars("HTTP")), PlainObj(Chars("timeout")),
             StringErr(Chars("boom")), StringErr(Chars("Timeout!")), NullErr})
    /\ nStatus \in ({0, 200, 404, 429, 499, 500, 503})
    /\ nResult = ([code |-> "", message |-> <<>>, status |-> 0, retriable |-> FALSE])
    /\ nDone = FALSE

\* normalizeError(nErr, { status: nStatus })
Normalize ==
    /\ ~nDone
    /\ nResult' = normalizeError(nErr, nStatus)
    /\ nDone' = TRUE
    /\ UNCHANGED <<nErr, nStatus, wsVars, mockVars, restVars, extVars>>

NextNorm == Normalize

----------------------------------------------------------------------------
(* REST client: requestJson and uploadFormData, one logical call *)

MaxRetries == 2

DEFAULT_RETRY_DELAY_MS == 450

Rejected(n) ==
    [kind |-> "rejected", code |-> n.code, message |-> n.message,
     status |-> n.status, retriable |-> n.retriable]

Resolved(status) ==
    [kind |-> "resolved", code |-> "", message |-> <<>>, status |-> status,
     retriable |-> FALSE]


Rq ==
    [pc |-> rPc, extListeners |-> extListeners, attempt |-> attempt,
     timeoutArmed |-> timeoutArmed, combined |-> combined,
     respStatus |-> respStatus, lastErr |-> lastErr, outcome |-> outcome,
     fetches |-> fetches, fetchAfterAbort |-> fetchAfterAbort,
     failures |-> failures, sleeps |-> sleeps, payload |-> rPayload]

RestApply(r) ==
    /\ rPc' = r.pc
    /\ extListeners' = r.extListeners
    /\ attempt' = r.attempt
    /\ timeoutArmed' = r.timeoutArmed
    /\ combined' = r.combined
    /\ respStatus' = r.respStatus
    /\ lastErr' = r.lastErr
    /\ outcome' = r.outcome
    /\ fetches' = r.fetches
    /\ fetchAfterAbort' = r.fetchAfterAbort
    /\ failures' = r.failures
    /\ sleeps' = r.sleeps
    /\ rPayload' = r.payload

\* finally { window.clearTimeout(timeoutId) }
finallyBlock(r) == [r EXCEPT !.timeoutArmed = FALSE]

\* attempt += 1 ... await fetch(url, { signal: combinedSignal })
startAttempt(r) ==
    [r EXCEPT !.attempt = @ + 1,
              !.timeoutArmed = TRUE,
              !.combined = "none",
              !.extListeners = IF hasSignal THEN @ \cup {r.attempt + 1} ELSE @,
              !.respStatus = 0,
              !.fetches = @ + 1,
              !.fetchAfterAbort = @ \/ extAborted,
              !.pc = "fetch"]

\* variant: the loop condition is attempt < retries
loopHead_lessThan(r) ==
    IF r.attempt < retries
    THEN startAttempt(r)
    ELSE [r EXCEPT !.outcome = Rejected(normalizeError(r.lastErr, 0)),
                   !.pc = "done"]

\* while (attempt <= retries) { ... } throw normalizeError(lastErr, { url })
loopHead(r) ==
    IF r.attempt <= retries
    THEN startAttempt(r)
    ELSE [r EXCEPT !.outcome = Rejected(normalizeError(r.lastErr, 0)),
                   !.pc = "done"]

\* variant: the retry decision looks at the attempt count only
canRetry_anyError(r, normalized) == r.attempt <= retries


canRetry(r, normalized) ==
    r.attempt <= retries /\ (normalized.retriable \/ normalized.code = "NETWORK")

\* variant: the backoff does not grow with the attempt number
catchBlock_constantDelay(r, err) ==
    LET normalized == IF err.obj /\ err.code # ""
                      THEN AsNormalized(err)
                      ELSE normalizeError(err, 0) IN
    LET r1 == [r EXCEPT !.lastErr = err, !.failures = Append(@, normalized)] IN
    IF canRetry(r1, normalized)
    THEN [r1 EXCEPT !.sleeps = Append(@, DEFAULT_RETRY_DELAY_MS),
                    !.pc = "sleep"]
    ELSE finallyBlock([r1 EXCEPT !.outcome = Rejected(normalized), !.pc = "done"])

\* catch (err) { ... }
catchBlock(r, err) ==
    LET normalized == IF err.obj /\ err.code # ""
                      THEN AsNormalized(err)
                      ELSE normalizeError(err, 0) IN
    LET r1 == [r EXCEPT !.lastErr = err, !.failures = Append(@, normalized)] IN
    IF canRetry(r1, normalized)
    THEN [r1 EXCEPT !.sleeps = Append(@, DEFAULT_RETRY_DELAY_MS * r1.attempt),
                    !.pc = "sleep"]
    ELSE finallyBlock([r1 EXCEPT !.outcome = Rejected(normalized), !.pc = "done"])

\* the code after the body has been read: if (!resp.ok) { ... } return payload
afterBody(r, payload) ==
    IF r.respStatus >= 200 /\ r.respStatus < 300
    THEN finallyBlock([r EXCEPT !.outcome = Resolved(r.respStatus), !.pc = "done"])
    ELSE LET err == normalizeError(PlainObj((IF payload = "withMessage" THEN Chars("nope") ELSE (Chars("HTTP")))),
                                   r.respStatus) IN
         IF r.attempt <= retries /\ err.retriable
         THEN [r EXCEPT !.failures = Append(@, err),
                        !.sleeps = Append(@, DEFAULT_RETRY_DELAY_MS * r.attempt),
                        !.pc = "sleep"]
         ELSE catchBlock(r, AsRaw(err))

\* uploadFormData: the body of try and its catch
uploadAfterBody(r, payload) ==
    IF r.respStatus >= 200 /\ r.respStatus < 300
    THEN [r EXCEPT !.outcome = Resolved(r.respStatus), !.pc = "done"]
    ELSE LET err == normalizeError(PlainObj((IF payload = "withMessage" THEN Chars("nope") ELSE (Chars("Upload failed")))),
                                   r.respStatus) IN
         [r EXCEPT !.outcome = Rejected(normalizeError(AsRaw(err), 0)),
                   !.pc = "done"]

InitRest ==
    /\ rKind \in {"requestJson", "uploadFormData"}
    /\ retries \in 0..MaxRetries
    /\ hasSignal \in BOOLEAN
    /\ extAborted \in BOOLEAN
    /\ extAborted => hasSignal
    /\ rKind = "uploadFormData" => (retries = 0 /\ ~hasSignal)
    /\ rPc = "idle"
    /\ extListeners = {}
    /\ attempt = 0
    /\ timeoutArmed = FALSE
    /\ combined = "none"
    /\ respStatus = 0
    /\ lastErr = ErrorObj(<<>>)
    /\ outcome = (
            [kind |-> "none", code |-> "", message |-> <<>>, status |-> 0,
             retriable |-> FALSE])
    /\ fetches = 0
    /\ fetchAfterAbort = FALSE
    /\ failures = <<>>
    /\ sleeps = <<>>
    /\ rPayload = "undefined"

\* requestJson(path, { retries, signal }) runs up to its first await fetch
RequestJson ==
    /\ rKind = "requestJson"
    /\ rPc = "idle"
    /\ RestApply(loopHead(Rq))
    /\ UNCHANGED <<rKind, retries, hasSignal, extAborted, wsVars, mockVars, normVars, extVars>>

\* uploadFormData(path, formData) runs up to its await fetch
UploadFormData ==
    /\ rKind = "uploadFormData"
    /\ rPc = "idle"
    /\ RestApply([Rq EXCEPT !.fetches = @ + 1, !.pc = "fetch"])
    /\ UNCHANGED <<rKind, retries, hasSignal, extAborted, wsVars, mockVars, normVars, extVars>>

\* the caller aborts options.signal: the attached { once: true } listeners run
ExtAbort ==
    /\ hasSignal
    /\ ~extAborted
    /\ rPc # "done"
    /\ extAborted' = TRUE
    /\ RestApply([Rq EXCEPT
          !.combined = IF attempt \in extListeners /\ @ = "none" THEN "abort" ELSE @,
          !.extListeners = {}])
    /\ UNCHANGED <<rKind, retries, hasSignal, wsVars, mockVars, normVars, extVars>>

\* the attempt's timer fires: controller.abort(new Error("timeout"))
TimeoutFire ==
    /\ timeoutArmed
    /\ RestApply([Rq EXCEPT
          !.timeoutArmed = FALSE,
          !.combined = IF @ = "none" THEN "timeout" ELSE @])
    /\ UNCHANGED <<rKind, retries, hasSignal, extAborted, wsVars, mockVars, normVars, extVars>>

\* fetch resolves with a response
FetchResponds(status) ==
    /\ rPc = "fetch"
    /\ combined = "none"
    /\ RestApply([Rq EXCEPT !.respStatus = status, !.pc = "body"])
    /\ UNCHANGED <<rKind, retries, hasSignal, extAborted, wsVars, mockVars, normVars, extVars>>

\* fetch rejects on its own
FetchFails(err) ==
    /\ rPc = "fetch"
    /\ combined = "none"
    /\ RestApply(IF rKind = "requestJson"
                 THEN catchBlock(Rq, err)
                 ELSE ([Rq EXCEPT !.outcome = Rejected(normalizeError(err, 0)), !.pc = "done"]))
    /\ UNCHANGED <<rKind, retries, hasSignal, extAborted, wsVars, mockVars, normVars, extVars>>

\* fetch rejects with the abort reason of combinedSignal
FetchAborted ==
    /\ rPc = "fetch"
    /\ combined # "none"
    /\ \E err \in IF combined = "timeout"
                  THEN {ErrorObj(Chars("timeout"))}
                  ELSE {DomAbortError, PolyAbortError} :
          RestApply(catchBlock(Rq, err))
    /\ UNCHANGED <<rKind, retries, hasSignal, extAborted, wsVars, mockVars, normVars, extVars>>

\* resp.json() / resp.text() settles; a failed or aborted read gives undefined
BodyRead ==
    /\ rPc = "body"
    /\ \E payload \in IF combined = "none" THEN ({"undefined", "plain", "withMessage"}) ELSE {"undefined"} :
          RestApply(IF rKind = "requestJson"
                    THEN afterBody([Rq EXCEPT !.payload = payload], payload)
                    ELSE uploadAfterBody([Rq EXCEPT !.payload = payload], payload))
    /\ UNCHANGED <<rKind, retries, hasSignal, extAborted, wsVars, mockVars, normVars, extVars>>

\* await sleep(retryDelayMs * attempt); continue
SleepDone ==
    /\ rPc = "sleep"
    /\ RestApply(loopHead(finallyBlock(Rq)))
    /\ UNCHANGED <<rKind, retries, hasSignal, extAborted, wsVars, mockVars, normVars, extVars>>

NextRest ==
    \/ RequestJson
    \/ UploadFormData
    \/ ExtAbort
    \/ TimeoutFire
    \/ \E status \in ({200, 404, 429, 500}) : FetchResponds(status)
    \/ \E err \in ({TypeErrorObj(Chars("failed")), TypeErrorObj(Chars("Timeout!")), ErrorObj(Chars("boom"))}) : FetchFails(err)
    \/ FetchAborted
    \/ BodyRead
    \/ SleepDone

----------------------------------------------------------------------------
(* REST client: the headers of a request *)

HeaderNames == {"Accept", "Content-Type", "Authorization", "X-Trace"}

\* a headers object: each name with the origin of its value, "" when the
\* object has no such key
Hdr(names, origin) == [n \in HeaderNames |-> IF n \in names THEN origin ELSE ""]

\* { ...a, ...b }
Spread(a, b) == [n \in HeaderNames |-> IF b[n] # "" THEN b[n] ELSE a[n]]

\* an auth-header provider: absent, or a function returning undefined
\* (truthy = FALSE) or a headers object with these names
Provider(has, truthy, names) == [has |-> has, truthy |-> truthy, names |-> names]

\* (perRequestAuthHeaders && perRequestAuthHeaders()) ||
\* (getAuthHeaders && getAuthHeaders()) || {}
requestAuthHeaders(a) ==
    IF a.perRequest.has /\ a.perRequest.truthy
    THEN Hdr(a.perRequest.names, "perRequestAuth")
    ELSE IF a.client.has /\ a.client.truthy
    THEN Hdr(a.client.names, "auth")
    ELSE Hdr({}, "")

\* finalHeaders of requestJson
requestHeaders(a) ==
    LET hasBody == a.body /\ a.method # "GET" IN
    Spread(Spread(Spread(Hdr({"Accept"}, "client"),
                         IF hasBody THEN Hdr({"Content-Type"}, "client")
                         ELSE Hdr({}, "")),
                  requestAuthHeaders(a)),
           Hdr(a.headers, "caller"))

\* (getAuthHeaders && getAuthHeaders()) || {}
uploadAuthHeaders(a) ==
    IF a.client.has /\ a.client.truthy
    THEN Hdr(a.client.names, "auth")
    ELSE Hdr({}, "")

\* variant: the upload sets Content-Type as a JSON request with a body does
uploadHeaders_setsContentType(a) ==
    Spread(Spread(Spread(Hdr({"Accept"}, "client"), Hdr({"Content-Type"}, "client")),
                  uploadAuthHeaders(a)),
           Hdr(a.headers, "caller"))

\* the headers uploadFormData hands to fetch
uploadHeaders(a) ==
    Spread(Spread(Hdr({"Accept"}, "client"), uploadAuthHeaders(a)),
           Hdr(a.headers, "caller"))

InitHeaders ==
    /\ fn \in {"requestJson", "uploadFormData"}
    /\ fArgs \in (
            [client : (
                    {Provider(FALSE, FALSE, {}), Provider(TRUE, FALSE, {}),
                     Provider(TRUE, TRUE, {"Authorization"}),
                     Provider(TRUE, TRUE, {"Authorization", "Content-Type"})}), perRequest : (
                             {Provider(FALSE, FALSE, {}), Provider(TRUE, TRUE, {}),
                              Provider(TRUE, TRUE, {"Content-Type"})}),
             headers : ({{}, {"X-Trace"}, {"Content-Type"}, {"Accept"}}), method : {"GET", "POST"}, body : BOOLEAN])
    /\ fn = "uploadFormData" => (fArgs.method = "POST" /\ fArgs.body)
    /\ fResult = ""
    /\ fDone = FALSE

RequestJsonHeaders ==
    /\ fn = "requestJson" /\ ~fDone
    /\ fResult' = requestHeaders(fArgs)
    /\ fDone' = TRUE
    /\ UNCHANGED <<fn, fArgs, coreVars,
                   cfgVars, uplVars, pageVars, mountVars>>

UploadFormDataHeaders ==
    /\ fn = "uploadFormData" /\ ~fDone
    /\ fResult' = uploadHeaders(fArgs)
    /\ fDone' = TRUE
    /\ UNCHANGED <<fn, fArgs, coreVars,
                   cfgVars, uplVars, pageVars, mountVars>>

NextHeaders ==
    \/ RequestJsonHeaders
    \/ UploadFormDataHeaders

----------------------------------------------------------------------------
(* Runtime configuration: parseFeatureFlags, resolveLogLevel, resolveNodeEnv *)

\* strings are sequences of characters; a flag name or a level written in
\* one piece ("data.mock") stands for its characters
Unset == [defined |-> FALSE, text |-> <<>>, json |-> [kind |-> "error"]]

\* a string, with what JSON.parse gives for it once trimmed
Str(text) == [defined |-> TRUE, text |-> text, json |-> [kind |-> "error"]]

JsonArray(text, items) ==
    [defined |-> TRUE, text |-> text, json |-> [kind |-> "array", items |-> items]]

JsonObject(text, entries) ==
    [defined |-> TRUE, text |-> text, json |-> [kind |-> "object", entries |-> entries]]

Range(f) == {f[i] : i \in DOMAIN f}

\* String.prototype.trim
trim(t) ==
    IF \A i \in 1..Len(t) : t[i] = " " THEN <<>>
    ELSE LET firstAt == CHOOSE i \in 1..Len(t) :
                          t[i] # " " /\ \A j \in 1..(i - 1) : t[j] = " " IN
         LET lastAt == CHOOSE i \in 1..Len(t) :
                          t[i] # " " /\ \A j \in (i + 1)..Len(t) : t[j] = " " IN
         SubSeq(t, firstAt, lastAt)

\* String.prototype.split(sep)
RECURSIVE split(_, _)
split(t, sep) ==
    IF \E i \in 1..Len(t) : t[i] = sep
    THEN LET i == CHOOSE i \in 1..Len(t) :
                      t[i] = sep /\ \A j \in 1..(i - 1) : t[j] # sep IN
         <<SubSeq(t, 1, i - 1)>> \o split(SubSeq(t, i + 1, Len(t)), sep)
    ELSE <<t>>

\* list.map((s) => s.trim()).filter(Boolean)
RECURSIVE trimAll(_)
trimAll(list) ==
    IF list = <<>> THEN <<>>
    ELSE LET h == trim(Head(list)) IN
         (IF h = <<>> THEN <<>> ELSE <<h>>) \o trimAll(Tail(list))

\* Object.fromEntries(list.map((k) => [k, true]))
allTrue(list) == [k \in Range(list) |-> TRUE]

\* typeof value === "string" && value.trim().length > 0 ? value.trim() : undefined
asOptionalString(value) ==
    IF value.defined /\ trim(value.text) # <<>>
    THEN [value EXCEPT !.text = trim(value.text)]
    ELSE Unset

\* parsed.filter((v) => typeof v === "string")
RECURSIVE stringsOf(_)
stringsOf(items) ==
    IF items = <<>> THEN <<>>
    ELSE (IF Head(items).isString THEN <<Head(items).text>> ELSE <<>>)
         \o stringsOf(Tail(items))

\* Object.keys(map).filter((k) => map[k]), in the order of the entries
RECURSIVE enabledKeys(_)
enabledKeys(entries) ==
    IF entries = <<>> THEN <<>>
    ELSE (IF Head(entries).value THEN <<Head(entries).key>> ELSE <<>>)
         \o enabledKeys(Tail(entries))

Flags(list, map) == [threw |-> FALSE, list |-> list, map |-> map]

commaList(cleaned) ==
    LET list == trimAll(split(cleaned, ",")) IN Flags(list, allTrue(list))

\* variant: no try/catch around JSON.parse
parseFeatureFlags_noCatch(raw) ==
    LET cleaned == trim(IF raw.defined THEN raw.text ELSE <<>>) IN
    IF cleaned = <<>> THEN Flags(<<>>, allTrue(<<>>))
    ELSE IF Head(cleaned) \in {"[", "{"}
    THEN IF raw.json.kind = "array"
         THEN LET list == trimAll(stringsOf(raw.json.items)) IN
              Flags(list, allTrue(list))
         ELSE IF raw.json.kind = "object"
         THEN Flags(enabledKeys(raw.json.entries),
                    [k \in {e.key : e \in Range(raw.json.entries)} |->
                        \E e \in Range(raw.json.entries) : e.key = k /\ e.value])
         ELSE [threw |-> TRUE, list |-> <<>>, map |-> allTrue(<<>>)]
    ELSE commaList(cleaned)

parseFeatureFlags(raw) ==
    LET cleaned == trim(IF raw.defined THEN raw.text ELSE <<>>) IN
    IF cleaned = <<>> THEN Flags(<<>>, allTrue(<<>>))
    ELSE IF Head(cleaned) \in {"[", "{"}
    THEN IF raw.json.kind = "array"
         THEN LET list == trimAll(stringsOf(raw.json.items)) IN
              Flags(list, allTrue(list))
         ELSE IF raw.json.kind = "object"
         THEN Flags(enabledKeys(raw.json.entries),
                    [k \in {e.key : e \in Range(raw.json.entries)} |->
                        \E e \in Range(raw.json.entries) : e.key = k /\ e.value])
         ELSE commaList(cleaned)
    ELSE commaList(cleaned)

\* an element of a parsed array, an entry of a parsed object
Item(isString, text) == [isString |-> isString, text |-> text]
Entry(key, value) == [key |-> key, value |-> value]

\* String.prototype.toLowerCase
lowerCase(t) ==
    [i \in 1..Len(t) |->
        IF \E k \in 1..26 : (
                <<"A","B","C","D","E","F","G","H","I","J","K","L","M",
                  "N","O","P","Q","R","S","T","U","V","W","X","Y","Z">>)[k] = t[i]
        THEN (
                <<"a","b","c","d","e","f","g","h","i","j","k","l","m",
                  "n","o","p","q","r","s","t","u","v","w","x","y","z">>)[CHOOSE k \in 1..26 : (
                          <<"A","B","C","D","E","F","G","H","I","J","K","L","M",
                            "N","O","P","Q","R","S","T","U","V","W","X","Y","Z">>)[k] = t[i]]
        ELSE t[i]]

\* LOG_LEVELS: the level at index n + 1 has the number n
LOG_LEVELS ==
    <<<<"s","i","l","e","n","t">>, <<"e","r","r","o","r">>, <<"w","a","r","n">>,
      <<"i","n","f","o">>, <<"d","e","b","u","g">>>>

Digits == <<"0","1","2","3","4","5","6","7","8","9">>

RECURSIVE Decimal(_)
Decimal(t) ==
    IF t = <<>> THEN 0
    ELSE 10 * Decimal(SubSeq(t, 1, Len(t) - 1)) + ((CHOOSE d \in 1..10 : Digits[d] = (t[Len(t)])) - 1)

\* Number(v) for a trimmed string: "" is 0, a decimal integer is its value,
\* anything else modelled here is NaN
Number(v) ==
    IF v = <<>> THEN [nan |-> FALSE, n |-> 0]
    ELSE IF \A i \in 1..Len(v) : (\E d \in 1..10 : Digits[d] = (v[i]))
    THEN [nan |-> FALSE, n |-> Decimal(v)]
    ELSE IF Len(v) >= 2 /\ v[1] = "-" /\ \A i \in 2..Len(v) : (\E d \in 1..10 : Digits[d] = (v[i]))
    THEN [nan |-> FALSE, n |-> 0 - Decimal(Tail(v))]
    ELSE [nan |-> TRUE, n |-> 0]

resolveLogLevel(raw) ==
    LET v == trim(lowerCase(IF raw.defined THEN raw.text ELSE <<>>)) IN
    \* v in LOG_LEVELS: its own keys and those inherited from Object.prototype
    IF v \in Range(LOG_LEVELS) \cup {<<"c","o","n","s","t","r","u","c","t","o","r">>} THEN v
    ELSE LET n == Number(v) IN
         IF ~n.nan
         THEN IF n.n <= 0 THEN LOG_LEVELS[1]
              ELSE IF n.n = 1 THEN LOG_LEVELS[2]
              ELSE IF n.n = 2 THEN LOG_LEVELS[3]
              ELSE IF n.n = 3 THEN LOG_LEVELS[4]
              ELSE LOG_LEVELS[5]
         ELSE LOG_LEVELS[4]

\* override || process.env.NODE_ENV || "development", then the three known names
resolveNodeEnv(e) ==
    LET override == asOptionalString(e.override) IN
    LET env == IF override.defined THEN override.text
               ELSE IF e.node.defined /\ e.node.text # <<>> THEN e.node.text
               ELSE <<"development">> IN
    IF env \in {<<"production">>, <<"test">>, <<"development">>} THEN env
    ELSE <<"development">>

InitConfig ==
    /\ envFlags \in (
            {Unset,
             Str(<<>>),
             Str(<<" ", " ">>),
             Str(<<"data.mock">>),
             Str(<<"data.live">>),
             Str(<<"data.mock", ",", "data.live">>),
             Str(<<" ", "data.mock", " ", ",", " ", "ui.beta", " ">>),
             Str(<<"ui.beta", ",", ",">>),
             JsonArray(<<"[", "\"", "data.mock", "\"", "]">>, <<Item(TRUE, <<"data.mock">>)>>),
             JsonArray(<<"[", "\"", "data.live", "\"", ",", "1", "]">>,
                       <<Item(TRUE, <<"data.live">>), Item(FALSE, <<>>)>>),
             JsonArray(<<" ", "[", "\"", " ", "ui.beta", " ", "\"", ",", "\"", "\"", "]">>,
                       <<Item(TRUE, <<" ", "ui.beta", " ">>), Item(TRUE, <<>>)>>),
             JsonObject(<<"{", "\"", "data.mock", "\"", ":", "true", ",",
                          "\"", "data.live", "\"", ":", "true", "}">>,
                        <<Entry(<<"data.mock">>, TRUE), Entry(<<"data.live">>, TRUE)>>),
             JsonObject(<<"{", "\"", "data.mock", "\"", ":", "false", ",",
                          "\"", "data.live", "\"", ":", "true", "}">>,
                        <<Entry(<<"data.mock">>, FALSE), Entry(<<"data.live">>, TRUE)>>),
             JsonObject(<<"{", "\"", "data.mock", "\"", ":", "1", "}">>,
                        <<Entry(<<"data.mock">>, TRUE)>>),
             Str(<<"[", "data.mock", ",", "data.live">>),
             Str(<<"{", "data.live", "}">>),
             Str(<<"{", "\"", "data.mock", "\"", ":", "true", ",">>)})
    /\ envLogLevel \in (
            {Unset, Str(<<>>), Str(<<" ">>),
             Str(<<"i","n","f","o">>), Str(<<"I","N","F","O">>),
             Str(<<" ","W","a","r","n"," ">>), Str(<<"d","e","b","u","g">>),
             Str(<<"s","i","l","e","n","t">>), Str(<<"E","r","r","o","r">>),
             Str(<<"0">>), Str(<<"1">>), Str(<<"2">>), Str(<<"3">>), Str(<<"4">>),
             Str(<<"1","2">>), Str(<<"-","1">>),
             Str(<<"v","e","r","b","o","s","e">>)})
    /\ envNodeEnv \in (
            {[override |-> Unset, node |-> Unset],
             [override |-> Unset, node |-> Str(<<"production">>)],
             [override |-> Unset, node |-> Str(<<"test">>)],
             [override |-> Unset, node |-> Str(<<"staging">>)],
             [override |-> Str(<<" ", "production", " ">>), node |-> Str(<<"development">>)]})
    /\ cfgBuilt = FALSE
    /\ featureFlags = Flags(<<>>, allTrue(<<>>))
    /\ logLevel = <<>>
    /\ nodeEnv = <<>>
    /\ dsMode = "none"
    /\ dsCalls = 0
    /\ dsLast = ""

\* export const config = buildConfig()
buildConfig ==
    /\ ~cfgBuilt
    /\ cfgBuilt' = TRUE
    /\ nodeEnv' = resolveNodeEnv(envNodeEnv)
    /\ featureFlags' = parseFeatureFlags((IF (asOptionalString(envFlags)).defined THEN (asOptionalString(envFlags)) ELSE Str(<<>>)))
    /\ logLevel' = resolveLogLevel(asOptionalString(envLogLevel))
    /\ UNCHANGED <<envFlags, envLogLevel, envNodeEnv, dsMode, dsCalls, dsLast,
                   coreVars,
                   pureVars, uplVars, pageVars, mountVars>>

----------------------------------------------------------------------------
(* Data service facade: resolveDataMode, createDataService *)

\* Boolean(config.featureFlags.map[flagName])
isFeatureEnabled(flagName) ==
    IF flagName = <<>> THEN FALSE
    ELSE \/ flagName \in DOMAIN featureFlags.map /\ featureFlags.map[flagName]
         \/ flagName \in ({<<"c","o","n","s","t","r","u","c","t","o","r">>})

\* variant: the live flag is looked at first
resolveDataMode_liveFirst ==
    IF isFeatureEnabled(<<"data.live">>) THEN "live"
    ELSE IF isFeatureEnabled(<<"data.mock">>) THEN "mock"
    ELSE IF nodeEnv = <<"production">> THEN "live" ELSE "mock"

resolveDataMode ==
    IF isFeatureEnabled(<<"data.mock">>) THEN "mock"
    ELSE IF isFeatureEnabled(<<"data.live">>) THEN "live"
    ELSE IF nodeEnv = <<"production">> THEN "live" ELSE "mock"

\* export const dataService = createDataService()
createDataService ==
    /\ cfgBuilt
    /\ dsMode = "none"
    /\ dsMode' = resolveDataMode
    /\ UNCHANGED <<envFlags, envLogLevel, envNodeEnv, cfgBuilt, featureFlags,
                   logLevel, nodeEnv, dsCalls, dsLast, coreVars,
                   pureVars, uplVars, pageVars, mountVars>>

\* dataService.<method>(...)
DsCall(method) ==
    /\ dsMode # "none"
    /\ dsCalls < MaxDsCalls
    /\ dsCalls' = dsCalls + 1
    /\ dsLast' = method
    /\ UNCHANGED <<envFlags, envLogLevel, envNodeEnv, cfgBuilt, featureFlags,
                   logLevel, nodeEnv, dsMode, coreVars,
                   pureVars, uplVars, pageVars, mountVars>>

NextConfig ==
    \/ buildConfig
    \/ createDataService
    \/ \E method \in (
            {"getDevices", "getRegions", "getAnalyticsSummary", "getRouteProgress",
             "uploadLogs", "subscribeToDeviceUpdates", "unsubscribe"}) : DsCall(method)

----------------------------------------------------------------------------
(* Mock provider: uploadLogs *)

totalSteps == 6

\* RECENT_UPLOADS has three records
SeedUploads == 3

\* Math.round((i / totalSteps) * 100)
percent(i) == (2 * 100 * i + totalSteps) \div (2 * totalSteps)

\* [...newItems, ...RECENT_UPLOADS].slice(0, 8): the new records by index,
\* then the seeded ones
recentUploads(n) ==
    LET all == [k \in 1..n |-> <<"new", k - 1>>]
               \o [k \in 1..SeedUploads |-> <<"seed", k>>] IN
    SubSeq(all, 1, Min(8, Len(all)))

\* variant: for (let i = 1; i < totalSteps; i += 1)
loopContinues_lessThan(i) == i < totalSteps

\* i <= totalSteps
loopContinues(i) == i <= totalSteps

InitUpload ==
    /\ uFiles \in 0..MaxFiles
    /\ uOnProgress \in BOOLEAN
    /\ uI = 0
    /\ uPc = "idle"
    /\ uProgress = <<>>
    /\ uResult = ([uploaded |-> 0 - 1, recentUploads |-> <<>>])

\* what follows the loop: the summary the promise resolves with
uploadSummary ==
    /\ uPc' = "done"
    /\ uResult' = [uploaded |-> uFiles, recentUploads |-> recentUploads(uFiles)]

\* uploadLogs(files, onProgress), up to the first await
uploadLogs ==
    /\ uPc = "idle"
    /\ uI' = 1
    /\ IF loopContinues(1)
       THEN uPc' = "sleeping" /\ uResult' = uResult
       ELSE uploadSummary
    /\ UNCHANGED <<uFiles, uOnProgress, uProgress, coreVars,
                   pureVars, cfgVars, pageVars, mountVars>>

\* the 200 ms timer fires: onProgress, i += 1, then the next await or the end
UploadStep ==
    /\ uPc = "sleeping"
    /\ uProgress' = IF uOnProgress THEN Append(uProgress, percent(uI)) ELSE uProgress
    /\ uI' = uI + 1
    /\ IF loopContinues(uI + 1)
       THEN uPc' = "sleeping" /\ uResult' = uResult
       ELSE uploadSummary
    /\ UNCHANGED <<uFiles, uOnProgress, coreVars,
                   pureVars, cfgVars, pageVars, mountVars>>

NextUpload ==
    \/ uploadLogs
    \/ UploadStep

----------------------------------------------------------------------------
(* UploadPage: uploadAll *)

\* an UploadItem: its status and whether validationErrors is non-empty
UploadItem(status, invalid) == [status |-> status, invalid |-> invalid]

InitPage ==
    /\ pgItems \in (UNION {[1..n -> (
            {UploadItem(st, inv) : st \in {"idle", "error", "success", "removed"},
                                   inv \in BOOLEAN}
            \ {UploadItem("success", TRUE)})] : n \in 0..MaxItems})
    /\ pgSnapshot = <<>>
    /\ pgOverall \in (IF pgItems = <<>> THEN {"idle"} ELSE {"ready", "done", "error"})
    /\ pgPageError = FALSE
    /\ pgValid = <<>>
    /\ pgK = 0
    /\ pgPc = "ready"
    /\ pgFailed = {}
    /\ pgNewRecents = 0

\* active.filter((it) => it.validationErrors.length === 0)
validOf(list) ==
    SelectSeq(([i \in 1..Len(list) |-> i]), LAMBDA i : list[i].status # "removed" /\ ~list[i].invalid)

\* the "Mark queued" update
markQueued(list) ==
    [i \in 1..Len(list) |->
        IF list[i].status = "removed" THEN list[i]
        ELSE IF list[i].invalid THEN [list[i] EXCEPT !.status = "error"]
        ELSE [list[i] EXCEPT !.status = "queued"]]

\* prev.map((p) => p.id === it.id ? {...p, status} : p)
setStatus(list, i, status) == [list EXCEPT ![i].status = status]

\* uploadAll(), up to the first await
uploadAll ==
    /\ pgPc = "ready"
    /\ ~(\E i \in 1..Len(pgItems) : pgItems[i].status = "uploading")
    /\ pgSnapshot' = pgItems
    /\ IF (SelectSeq(([i \in 1..Len(pgItems) |-> i]), LAMBDA i : pgItems[i].status # "removed")) = <<>> \/ validOf(pgItems) = <<>>
       THEN /\ pgPageError' = TRUE
            /\ pgPc' = "returned"
            /\ UNCHANGED <<pgItems, pgOverall, pgValid, pgK>>
       ELSE /\ pgPageError' = FALSE
            /\ pgValid' = validOf(pgItems)
            /\ pgK' = 1
            /\ pgItems' = setStatus(markQueued(pgItems), validOf(pgItems)[1], "uploading")
            /\ pgOverall' = "uploading"
            /\ pgPc' = "awaiting"
    /\ UNCHANGED <<pgFailed, pgNewRecents, coreVars,
                   pureVars, cfgVars, uplVars, mountVars>>

\* dataService.uploadLogs([it.file], ...) settles: the rest of the loop body,
\* then the next item's await or what follows the loop
UploadSettled(ok) ==
    /\ pgPc = "awaiting"
    /\ LET it == pgValid[pgK] IN
       LET settled == setStatus(pgItems, it, IF ok THEN "success" ELSE "error") IN
       /\ pgFailed' = IF ok THEN pgFailed ELSE pgFailed \cup {it}
       /\ pgNewRecents' = IF ok THEN pgNewRecents + 1 ELSE pgNewRecents
       /\ IF pgK < Len(pgValid)
          THEN /\ pgItems' = setStatus(settled, pgValid[pgK + 1], "uploading")
               /\ pgK' = pgK + 1
               /\ pgOverall' = IF ok THEN pgOverall ELSE "error"
               /\ pgPc' = "awaiting"
          ELSE /\ pgItems' = settled
               /\ pgK' = pgK
               \* hadError: items.some((it) => it.status === "error"), on the
               \* items of the closure
               /\ pgOverall' = IF \E i \in 1..Len(pgSnapshot) : pgSnapshot[i].status = "error"
                                THEN "error" ELSE "done"
               /\ pgPc' = "finished"
    /\ UNCHANGED <<pgSnapshot, pgPageError, pgValid, coreVars,
                   pureVars, cfgVars, uplVars, mountVars>>

NextPage ==
    \/ uploadAll
    \/ \E ok \in BOOLEAN : UploadSettled(ok)

----------------------------------------------------------------------------
(* DashboardHome and LiveTrackingPage: mount effect, polling, device updates *)

DeviceIds == 1..MaxDeviceId

\* a device as the server lists it
Device(id, online) == [id |-> id, online |-> online]

\* evt: null, of another type, without a device (device as a sequence of
\* no or one value), or a device:update
DeviceEvt(null, type, device) == [null |-> null, type |-> type, device |-> device]

\* the lists getDevices() resolves to: the server's devices, each id once
DeviceLists ==
    {l \in UNION {[1..n -> {Device(id, online) : id \in DeviceIds, online \in BOOLEAN}] :
                      n \in 0..MaxDeviceId} :
        \A i, j \in 1..Len(l) : l[i].id = l[j].id => i = j}

NoUpdate == [handled |-> FALSE, incoming |-> <<>>, prev |-> <<>>]

InitMount ==
    /\ mtPage \in ({"DashboardHome", "LiveTrackingPage"})
    /\ mtPc = (IF mtPage = "DashboardHome" THEN "refreshAll" ELSE "getRegions")
    /\ cancelled = FALSE
    /\ subscribedRef = FALSE
    /\ pollTimerRef = FALSE
    /\ subscribed = FALSE
    /\ devices = <<>>
    /\ cleanedUp = FALSE
    /\ startedLate = {}
    /\ lastUpdate = NoUpdate

\* prev.findIndex((d) => d.id === incoming.id), 0 for -1
findIndex(prev, id) ==
    IF \E i \in 1..Len(prev) : prev[i].id = id
    THEN CHOOSE i \in 1..Len(prev) :
             /\ prev[i].id = id
             /\ \A j \in 1..(i - 1) : prev[j].id # id
    ELSE 0

\* { ...a, ...b }
merge(a, b) ==
    [k \in DOMAIN a \cup DOMAIN b |-> IF k \in DOMAIN b THEN b[k] ELSE a[k]]

deviceUpdate_alwaysPrepend(prev, incoming) == <<incoming>> \o prev

\* the updater given to setDevices by the callback
deviceUpdate(prev, incoming) ==
    LET idx == findIndex(prev, incoming.id) IN
    IF idx = 0 THEN <<incoming>> \o prev
    ELSE [prev EXCEPT ![idx] = merge(prev[idx], incoming)]

\* the callback reaches setDevices: not cancelled, a device:update, a device
\* with a truthy id
handles(evt) ==
    /\ ~cancelled
    /\ ~evt.null
    /\ evt.type = "device:update"
    /\ evt.device # <<>>
    /\ "id" \in DOMAIN evt.device[1]
    /\ evt.device[1].id # 0

\* LiveTrackingPage: getRegions() settles; boot() returns when it resolved and
\* the effect is cancelled, and goes on to refreshDevices() otherwise
RegionsSettled(ok) ==
    /\ mtPc = "getRegions"
    /\ mtPc' = IF ok /\ cancelled THEN "returned" ELSE "refreshDevices"
    /\ lastUpdate' = NoUpdate
    /\ UNCHANGED <<mtPage, cancelled, subscribedRef, pollTimerRef, subscribed,
                   devices, cleanedUp, startedLate, coreVars,
                   pureVars, cfgVars, uplVars, pageVars>>

\* the first fetch of the devices settles and boot() runs to its end:
\* DashboardHome subscribes, LiveTrackingPage starts polling and subscribes
FetchSettled(ok, list) ==
    /\ mtPc \in {"refreshAll", "refreshDevices"}
    /\ list \in DeviceLists
    /\ devices' = IF ok THEN list ELSE devices
    /\ IF mtPage = "DashboardHome"
          THEN IF subscribedRef
                 THEN /\ mtPc' = "returned"
                      /\ UNCHANGED <<subscribedRef, subscribed, startedLate>>
                 ELSE /\ subscribedRef' = TRUE
                      /\ subscribed' = TRUE
                      /\ startedLate' = IF cleanedUp THEN {"subscription"} ELSE {}
                      /\ mtPc' = "done"
          ELSE /\ subscribed' = TRUE
               /\ startedLate' = IF cleanedUp THEN {"polling", "subscription"} ELSE {}
               /\ mtPc' = "done"
               /\ UNCHANGED subscribedRef
    /\ pollTimerRef' = (mtPage = "LiveTrackingPage" \/ pollTimerRef)
    /\ lastUpdate' = NoUpdate
    /\ UNCHANGED <<mtPage, cancelled, cleanedUp, coreVars,
                   pureVars, cfgVars, uplVars, pageVars>>

\* the polling interval fires: refreshDevices({ silent: true })
PollTick(ok, list) ==
    /\ pollTimerRef
    /\ list \in DeviceLists
    /\ devices' = IF ok THEN list ELSE devices
    /\ lastUpdate' = NoUpdate
    /\ UNCHANGED <<mtPage, mtPc, cancelled, subscribedRef, pollTimerRef,
                   subscribed, cleanedUp, startedLate, coreVars,
                   pureVars, cfgVars, uplVars, pageVars>>

\* the data service gives an event to the page's callback
DeviceEvent(evt) ==
    /\ subscribed
    /\ IF handles(evt)
          THEN /\ devices' = deviceUpdate(devices, evt.device[1])
               /\ lastUpdate' = [handled |-> TRUE, incoming |-> evt.device,
                                 prev |-> devices]
          ELSE /\ devices' = devices
               /\ lastUpdate' = NoUpdate
    /\ UNCHANGED <<mtPage, mtPc, cancelled, subscribedRef, pollTimerRef,
                   subscribed, cleanedUp, startedLate, coreVars,
                   pureVars, cfgVars, uplVars, pageVars>>

\* the effect's cleanup: cancelled = true, stopPolling(), unsubscribe()
Unmount ==
    /\ ~cleanedUp
    /\ cancelled' = TRUE
    /\ pollTimerRef' = FALSE
    /\ subscribed' = FALSE
    /\ cleanedUp' = TRUE
    /\ lastUpdate' = NoUpdate
    /\ UNCHANGED <<mtPage, mtPc, subscribedRef, devices, startedLate,
                   coreVars,
                   pureVars, cfgVars, uplVars, pageVars>>

NextMount ==
    \/ \E ok \in BOOLEAN : RegionsSettled(ok)
    \/ \E ok \in BOOLEAN, list \in DeviceLists : FetchSettled(ok, list)
    \/ \E ok \in BOOLEAN, list \in DeviceLists : PollTick(ok, list)
    \/ \E evt \in (
            {DeviceEvt(TRUE, "", <<>>),
             DeviceEvt(FALSE, "device:status", <<Device(1, TRUE)>>),
             DeviceEvt(FALSE, "device:update", <<>>)}
                \cup {DeviceEvt(FALSE, "device:update", <<d>>) : d \in (
                        {Device(id, online) : id \in DeviceIds, online \in BOOLEAN}
                            \cup {[id |-> id] : id \in DeviceIds}
                            \cup {[online |-> TRUE], Device(0, TRUE)})}) : DeviceEvent(evt)
    \/ Unmount

----------------------------------------------------------------------------
(* Specifications *)

\* every component but k in the one state in which it takes no step
Idle(k) ==
    /\ k # "ws" =>
           /\ InitWs /\ ~viaProvider /\ ~reconnect
           /\ baseDelay = DefaultBaseDelay /\ maxDelay = DefaultMaxDelay
           /\ throwers = {} /\ disposers = <<>> /\ disposed = <<>>
    /\ k # "mock" => InitMock
    /\ k # "rest" => InitRest /\ rKind = "requestJson" /\ retries = 0 /\ ~hasSignal
    /\ k # "norm" => InitNorm /\ nErr = NullErr /\ nStatus = 0
    /\ k # "headers" => fn = "" /\ fArgs = "" /\ fResult = "" /\ fDone = FALSE
    /\ k # "config" =>
           /\ InitConfig
           /\ envFlags = Unset
           /\ envLogLevel = Unset
           /\ envNodeEnv = [override |-> Unset, node |-> Unset]
    /\ k # "upload" => InitUpload /\ uFiles = 0 /\ ~uOnProgress
    /\ k # "page" => InitPage /\ pgItems = <<>>
    /\ k # "mount" => InitMount /\ mtPage = "DashboardHome"

\* WebSocket client, used directly or through the live provider
WsInit ==
    /\ InitWs
    /\ baseDelay = DefaultBaseDelay /\ maxDelay = DefaultMaxDelay
    /\ throwers = {} /\ disposers = <<>> /\ disposed = <<>>
    /\ Idle("ws")

SpecWs == WsInit /\ [][NextWs]_vars

\* the same, with window timeouts that fire when they are due
SpecWsFair == WsInit /\ [][NextWs]_vars /\ WF_vars(\E t \in timers : TimerFire(t))

\* the client alone, reconnecting, under each configuration <<base, max>> of
\* the reconnect delays
WsBackoffInit ==
    /\ InitWs
    /\ ~viaProvider
    /\ reconnect
    /\ \E o \in {<<DefaultBaseDelay, DefaultMaxDelay>>, <<700, 2000>>, <<4000, 10000>>} :
          baseDelay = o[1] /\ maxDelay = o[2]
    /\ throwers = {}
    /\ disposers = <<>>
    /\ disposed = <<>>
    /\ Idle("ws")

SpecWsBackoff == WsBackoffInit /\ [][NextWsClient]_vars

\* the client used directly, with subscribers some of which throw
WsSubInit ==
    /\ InitWs
    /\ ~viaProvider
    /\ baseDelay = DefaultBaseDelay /\ maxDelay = DefaultMaxDelay
    /\ throwers \in SUBSET (1..NumCallbacks)
    /\ disposers = <<>>
    /\ disposed = <<>>
    /\ Idle("ws")

SpecWsSub == WsSubInit /\ [][NextWsSub]_vars

\* mock provider
MockInit == InitMock /\ Idle("mock")

SpecMock == MockInit /\ [][NextMock]_vars

\* one call of the REST client
RestInit == InitRest /\ Idle("rest")

SpecRest == RestInit /\ [][NextRest]_vars

\* normalizeError on its own, over every raw error and context
NormInit == InitNorm /\ Idle("norm")

SpecNorm == NormInit /\ [][NextNorm]_vars

\* the headers requestJson and uploadFormData send
HeadersInit == InitHeaders /\ Idle("headers")

SpecHeaders == HeadersInit /\ [][NextHeaders]_vars

\* the configuration built from the environment and the data service on it
ConfigInit == InitConfig /\ Idle("config")

SpecConfig == ConfigInit /\ [][NextConfig]_vars

\* one call of the mock provider's uploadLogs
UploadInit == InitUpload /\ Idle("upload")

SpecUpload == UploadInit /\ [][NextUpload]_vars

\* UploadPage with a list of items, and one run of uploadAll()
PageInit == InitPage /\ Idle("page")

SpecPage == PageInit /\ [][NextPage]_vars

\* DashboardHome or LiveTrackingPage from its mount on
MountInit == InitMount /\ Idle("mount")

SpecMount == MountInit /\ [][NextMount]_vars

----------------------------------------------------------------------------
(* Properties of the WebSocket client and the live provider *)

\* C1: after close() followed by connect() auto-reconnect is active again:
\* with the reconnect option on, a close event of the current socket of a
\* reopened client leaves a reconnect timer pending.
C1_ReconnectAfterReopen ==
    [][(reconnect /\ lifecycle = "reopened" /\ ws # 0
        /\ last'.op = "onclose" /\ last'.sock = ws)
       => reconnectTimer' # 0]_vars

\* C2: after unsubscribe() no relay registered by an earlier
\* subscribeToDeviceUpdates is still a listener, and no device:update is
\* dispatched to one.
C2_UnsubscribeRemovesAll ==
    /\ listeners \cap revoked = {}
    /\ \A i \in 1..Len(emitted) :
          emitted[i].type = "device:update" => emitted[i].to \cap revoked = {}

\* C5: after close(), until connect() is called again, no reconnect timer is
\* pending, no timer fires and no socket is constructed, also when the close
\* event of the torn-down socket arrives afterwards.
C5_NoReconnectAfterClose ==
    /\ [](lifecycle = "closed" => (timers = {} /\ reconnectTimer = 0))
    /\ [][(lifecycle = "closed" /\ lifecycle' = "closed")
          => (Len(socks') = Len(socks) /\ last'.op # "timer")]_vars

C5_Witness ==
    /\ reconnect
    /\ lifecycle = "closed"
    /\ last.op = "onclose"
    /\ socks[last.sock] = "CLOSED"

\* C6: at most one reconnect timer is pending in every reachable state.
C6_OneReconnectTimer == Cardinality(timers) <= 1

\* two close events met shouldReconnect = TRUE, one timer was ever created
C6_Witness ==
    /\ shouldReconnect
    /\ last.op = "onclose"
    /\ Len(socks) >= 2
    /\ \A s \in 1..Len(socks) : socks[s] = "CLOSED"
    /\ timerSeq = 1
    /\ Cardinality(timers) = 1

\* C7: at most one socket is open or connecting at any time, and a
\* subscribeToDeviceUpdates made while the current socket is open or
\* connecting constructs no socket.
C7_SingleSharedSocket ==
    /\ [](Cardinality(({s \in 1..Len(socks) : socks[s] \in {"OPEN", "CONNECTING"}})) <= 1)
    /\ [][(last'.op = "subscribe" /\ ws # 0 /\ socks[ws] \in {"OPEN", "CONNECTING"})
          => (socks' = socks /\ ws' = ws)]_vars

C7_Witness ==
    /\ viaProvider
    /\ last.op = "subscribe"
    /\ Len(relays) >= 2
    /\ revoked = {}
    /\ timerSeq = 0
    /\ Len(socks) = 1
    /\ Cardinality(({s \in 1..Len(socks) : socks[s] \in {"OPEN", "CONNECTING"}})) = 1

\* C15: with reconnect enabled and close() never called, every close of the
\* current socket and every failed construction leaves a reconnect timer
\* pending, whatever the number of failures so far, and a pending timer does
\* not stay pending: it fires or a connect() replaces it.
C15_ReconnectNeverGivesUp ==
    /\ [][(reconnect /\ lifecycle = "fresh" /\ lifecycle' = "fresh"
           /\ ((last'.op = "onclose" /\ ws # 0 /\ last'.sock = ws) \/ (
                   /\ last.op \in {"connect", "timer", "subscribe"}
                   /\ \E i \in 1..Len(emitted) : emitted[i].type = "error")'))
          => reconnectTimer' \in timers']_vars
    /\ \A t \in 1..MaxTimers :
          (t \in timers /\ (Len(socks) < MaxSockets \/ timerSeq < MaxTimers)) ~> (t \notin timers)

\* a third consecutive failure has its timer and that timer fired
C15_Witness ==
    /\ reconnect
    /\ lifecycle = "fresh"
    /\ timerSeq >= 3
    /\ reconnectAttempt >= 3
    /\ last.op = "timer"

\* C16 as stated: a reconnect is scheduled after min(maxDelay, baseDelay * (1 + n)),
\* n being the attempt counter at the moment of the close, so that the first
\* reconnect after an open (n = 0) waits baseDelay; the delay never exceeds
\* maxDelay and never decreases across consecutive failed reconnects.
C16_BackoffDelay ==
    [][(timerSeq' = timerSeq + 1) =>
          /\ reconnectDelay' = Min(maxDelay, baseDelay * (1 + reconnectAttempt))
          /\ reconnectDelay' <= maxDelay
          /\ (reconnectAttempt >= 1) => (reconnectDelay' >= reconnectDelay)]_vars

\* C16 (amended): a reconnect is scheduled after min(maxDelay, baseDelay * (1 + n)),
\* n being the attempt counter after it was incremented for this reconnect,
\* so that the first reconnect after an open (n = 1) waits
\* min(maxDelay, 2 * baseDelay); the delay never exceeds maxDelay and never
\* decreases across consecutive failed reconnects.
C16_BackoffDelayIncremented ==
    [][(timerSeq' = timerSeq + 1) =>
          /\ reconnectAttempt' = reconnectAttempt + 1
          /\ reconnectDelay' = Min(maxDelay, baseDelay * (1 + reconnectAttempt'))
          /\ (reconnectAttempt = 0) => (reconnectDelay' = Min(maxDelay, 2 * baseDelay))
          /\ reconnectDelay' <= maxDelay
          /\ (reconnectAttempt >= 1) => (reconnectDelay' >= reconnectDelay)]_vars

\* a third consecutive reconnect is pending and its delay was capped
C16_Witness ==
    /\ reconnectTimer \in timers
    /\ reconnectAttempt >= 3
    /\ baseDelay * (1 + reconnectAttempt) > maxDelay
    /\ reconnectDelay = maxDelay

\* C17 as stated: a subscription whose own disposer was never called is still
\* registered and receives every event that is dispatched.
C17_DisposerRemovesOnlyOwn ==
    \A i \in 1..Len(disposers) :
        (\A k \in 1..Len(disposed) : disposed[k] # i) =>
            /\ disposers[i] \in listeners
            /\ \A e \in 1..Len(emitted) : disposers[i] \in emitted[e].to

\* C17 (amended): a disposer removes the callback of its subscribe call; every
\* subscription made with a callback that no called disposer was created for
\* is still registered and receives every event that is dispatched.
C17_DisposerRemovesCallback ==
    \A i \in 1..Len(disposers) :
        disposers[i] \notin ({disposers[disposed[k]] : k \in 1..Len(disposed)}) =>
            /\ disposers[i] \in listeners
            /\ \A e \in 1..Len(emitted) : disposers[i] \in emitted[e].to

\* one disposer was called and a later frame reached the other subscriber
C17_Witness ==
    /\ disposed # <<>>
    /\ last.op = "onmessage"
    /\ \E i \in 1..Len(disposers) :
          /\ disposers[i] \notin ({disposers[disposed[k]] : k \in 1..Len(disposed)})
          /\ emitted # <<>>
          /\ disposers[i] \in emitted[1].to
          /\ ({disposers[disposed[k]] : k \in 1..Len(disposed)}) \cap emitted[1].to = {}

\* C18: when a listener throws during a dispatch, every registered listener
\* is still invoked for that event and the handler that dispatched it goes on
\* as if nothing was thrown: onopen leaves the client connected with the
\* attempt counter 0, onmessage changes nothing, and onclose and a failed
\* construction leave a reconnect timer pending when reconnection is on.
C18_ListenerThrowIsolated ==
    [][(\E e \in 1..Len(emitted') : emitted'[e].threw # {}) =>
          /\ \A e \in 1..Len(emitted') : emitted'[e].to = listeners
          /\ (last'.op = "onopen") => (connected' /\ reconnectAttempt' = 0)
          /\ (last'.op = "onmessage") =>
                UNCHANGED <<ws, socks, connected, shouldReconnect,
                            reconnectAttempt, reconnectTimer, timers>>
          /\ (last'.op = "onclose") =>
                /\ ~connected'
                /\ shouldReconnect => reconnectTimer' \in timers'
          /\ (last'.op \in {"connect", "timer"}) =>
                (shouldReconnect => reconnectTimer' \in timers')]_vars

\* a close event was delivered to a throwing listener and to another one,
\* and the reconnect is pending
C18_Witness ==
    /\ last.op = "onclose"
    /\ reconnectTimer \in timers
    /\ \E e \in 1..Len(emitted) :
          /\ emitted[e].threw # {}
          /\ emitted[e].to \ emitted[e].threw # {}

\* C19 as stated: every frame gives exactly one event; an object with a type
\* field is dispatched with that type; a frame that is not text, does not
\* parse, or parses to something that is not a plain object is dispatched as
\* "message" with the raw payload.
C19_MessageDispatch ==
    (last.op = "onmessage") =>
        LET f == last.frame IN
        /\ Len(emitted) = 1
        /\ (f.isString /\ f.parses /\ f.kind = "object" /\ f.type # "absent")
              => emitted[1].type = f.type
        /\ (~f.isString \/ ~f.parses \/ f.kind # "object")
              => (emitted[1].type = "message" /\ emitted[1].data = "raw")

\* C19 (amended): every frame gives exactly one event; a text frame that
\* parses to an object or an array is dispatched with its type field when
\* that field is truthy and as "message" otherwise, its data being the data
\* field when there is one and the parsed value otherwise; a frame that is
\* not text, does not parse, or parses to null or a primitive is dispatched
\* as "message" with the raw payload.
C19_MessageDispatchAmended ==
    (last.op = "onmessage") =>
        LET f == last.frame IN
        LET parsedObject == f.isString /\ f.parses /\ f.kind \in {"object", "array"} IN
        /\ Len(emitted) = 1
        /\ (parsedObject /\ f.type \notin {"absent", ""})
              => emitted[1].type = f.type
        /\ (parsedObject /\ f.type \in {"absent", ""})
              => emitted[1].type = "message"
        /\ parsedObject
              => emitted[1].data = (IF f.hasData THEN "parsed.data" ELSE "parsed")
        /\ ~parsedObject
              => (emitted[1].type = "message" /\ emitted[1].data = "raw")

\* a typed object frame was dispatched under its own type
C19_Witness ==
    /\ last.op = "onmessage"
    /\ last.frame.kind = "object"
    /\ last.frame.type = "custom"
    /\ last.frame.hasData
    /\ Len(emitted) = 1
    /\ emitted[1].type = "custom"
    /\ emitted[1].data = "parsed.data"

----------------------------------------------------------------------------
(* Properties of the mock provider *)

\* C8: at most one interval emitter is active after any sequence of subscribe
\* and unsubscribe calls, and any number of consecutive subscribe calls starts
\* exactly one.
C8_OneEmitter ==
    /\ Cardinality(intervals) <= 1
    /\ startsSinceClear <= 1
    /\ subs # {} => (Cardinality(intervals) = 1 /\ startsSinceClear = 1)

C8_Witness ==
    /\ Cardinality(subs) = NumMockCallbacks
    /\ Cardinality(intervals) = 1
    /\ startsSinceClear = 1

\* C9: unsubscribe() leaves the subscriber set empty and the emitter stopped;
\* a callback cleared by it and not registered again is never a subscriber
\* and never receives a tick; while there are subscribers the emitter runs.
C9_UnsubscribeStopsDelivery ==
    /\ mockLast = "unsubscribe" => (subs = {} /\ intervals = {} /\ intervalId = 0)
    /\ subs \cap mockRevoked = {}
    /\ mockDelivered \cap mockRevoked = {}
    /\ subs # {} => intervals # {}

C9_Witness ==
    /\ mockLast = "tick"
    /\ mockRevoked # {}
    /\ mockDelivered # {}

----------------------------------------------------------------------------
(* Properties of the REST client *)

\* C3: once the external signal is aborted before requestJson settles, no
\* fetch is started afterwards and the call rejects with code ABORTED.
C3_AbortHonoured ==
    (rKind = "requestJson" /\ extAborted)
    => /\ ~fetchAfterAbort
       /\ rPc = "done" => (outcome.kind = "rejected" /\ outcome.code = "ABORTED")

\* C4: uploadFormData answered with a non-2xx status rejects with code HTTP,
\* the response status, and retriable = (status >= 500 or status = 429).
C4_UploadHttpError ==
    (rKind = "uploadFormData" /\ rPc = "done" /\ respStatus # 0
     /\ ~(respStatus >= 200 /\ respStatus < 300))
    => /\ outcome.kind = "rejected"
       /\ outcome.code = "HTTP"
       /\ outcome.status = respStatus
       /\ outcome.retriable = (respStatus >= 500 \/ respStatus = 429)

\* C10: an attempt of requestJson that fails with a non-retriable error is the
\* last one: the call is rejected with that error, with no further fetch and
\* no backoff sleep after it.
C10_NonRetriablePropagates ==
    rKind = "requestJson" =>
        \A i \in 1..Len(failures) :
            ~failures[i].retriable =>
                /\ i = Len(failures)
                /\ rPc = "done"
                /\ outcome = Rejected(failures[i])
                /\ attempt = i
                /\ fetches = i
                /\ Len(sleeps) = i - 1

\* a non-retriable failure on the second attempt, with a retry still allowed
C10_Witness ==
    /\ rKind = "requestJson"
    /\ retries = 2
    /\ rPc = "done"
    /\ Len(failures) = 2
    /\ failures[1].retriable
    /\ ~failures[2].retriable
    /\ outcome.code \in {"HTTP", "ABORTED", "UNKNOWN"}

\* C11: requestJson never calls fetch more than retries + 1 times; when the
\* call is rejected and every attempt failed with a retriable error, exactly
\* retries + 1 attempts were made and the rejection is the error of the last.
C11_BoundedAttempts ==
    rKind = "requestJson" =>
        /\ fetches <= retries + 1
        /\ (rPc = "done" /\ outcome.kind = "rejected"
            /\ \A i \in 1..Len(failures) : failures[i].retriable)
           => /\ fetches = retries + 1
              /\ Len(failures) = retries + 1
              /\ outcome = Rejected(failures[Len(failures)])

C11_Witness ==
    /\ rKind = "requestJson"
    /\ retries = MaxRetries
    /\ rPc = "done"
    /\ outcome.kind = "rejected"
    /\ Len(failures) = retries + 1
    /\ \A i \in 1..Len(failures) : failures[i].retriable
    /\ {failures[i].code : i \in 1..Len(failures)} = {"HTTP", "NETWORK", "TIMEOUT"}

\* C12: a further fetch of requestJson starts only out of the backoff sleep
\* that follows the failed attempt k, never while a request is in flight, and
\* that sleep lasts retryDelayMs * k.
C12_SequentialBackoff ==
    [][(rKind = "requestJson" /\ fetches >= 1 /\ fetches' = fetches + 1)
       => /\ ~(rPc \in {"fetch", "body"})
          /\ rPc = "sleep"
          /\ Len(failures) = fetches
          /\ Len(sleeps) = fetches
          /\ sleeps[fetches] = DEFAULT_RETRY_DELAY_MS * fetches]_vars

C12_Witness ==
    /\ rKind = "requestJson"
    /\ fetches = 3
    /\ sleeps = <<DEFAULT_RETRY_DELAY_MS, DEFAULT_RETRY_DELAY_MS * 2>>
    /\ {failures[i].code : i \in 1..Len(failures)} \cap {"NETWORK", "TIMEOUT"} # {}

\* C13: no abort listener of a finished attempt stays attached to the
\* external signal: while an attempt runs only its own listener is attached,
\* and none is attached once the call has settled.
C13_NoListenerLeak ==
    (rKind = "requestJson" /\ hasSignal)
    => /\ (rPc \in {"fetch", "body"}) => extListeners \subseteq {attempt}
       /\ rPc = "done" => extListeners = {}

----------------------------------------------------------------------------
(* Properties of normalizeError *)

\* C20: normalizeError classifies by the first rule that matches: an abort
\* error is ABORTED and not retriable; else a present context.status gives
\* HTTP, retriable for 5xx and 429; else a message containing "timeout" in
\* any letter case gives TIMEOUT, retriable; else a TypeError gives NETWORK,
\* retriable; else UNKNOWN, not retriable. The result is thereby determined
\* by the raw error and the context.
C20_ClassificationOrder ==
    nDone =>
        LET abort == nErr.obj /\ nErr.name = "AbortError" IN
        LET timeout == includes(toLowerCase(nResult.message), Chars("timeout")) IN
        /\ abort => (nResult.code = "ABORTED" /\ ~nResult.retriable)
        /\ (~abort /\ nStatus # 0) =>
              /\ nResult.code = "HTTP"
              /\ nResult.status = nStatus
              /\ nResult.retriable = (nStatus >= 500 \/ nStatus = 429)
        /\ (~abort /\ nStatus = 0 /\ timeout) =>
              (nResult.code = "TIMEOUT" /\ nResult.retriable)
        /\ (~abort /\ nStatus = 0 /\ ~timeout /\ nErr.isTypeError) =>
              (nResult.code = "NETWORK" /\ nResult.retriable)
        /\ (~abort /\ nStatus = 0 /\ ~timeout /\ ~nErr.isTypeError) =>
              (nResult.code = "UNKNOWN" /\ ~nResult.retriable)

\* a TypeError whose message says "Timeout!" was classified TIMEOUT, the
\* earlier rule
C20_Witness ==
    /\ nDone
    /\ nErr = TypeErrorObj(Chars("Timeout!"))
    /\ nStatus = 0
    /\ nResult.code = "TIMEOUT"
    /\ nResult.retriable

----------------------------------------------------------------------------
(* Properties of the request headers *)

\* C21: the request of uploadFormData carries no Content-Type set by the
\* client itself: the only header the client adds is Accept, every other
\* one comes from the auth provider or from the caller's headers option.
C21_NoClientContentType ==
    (fn = "uploadFormData" /\ fDone) =>
        /\ fResult["Content-Type"] # "client"
        /\ \A n \in HeaderNames : fResult[n] = "client" => n = "Accept"
        /\ \A n \in HeaderNames :
              (n # "Accept" /\ fResult[n] # "") =>
                  \/ (fResult[n] = "caller" /\ n \in fArgs.headers)
                  \/ (fResult[n] = "auth" /\ n \in fArgs.client.names)

\* an upload went out with the client's Accept and the provider's
\* Authorization and with no Content-Type at all
C21_Witness ==
    /\ fn = "uploadFormData" /\ fDone
    /\ fResult["Accept"] = "client"
    /\ fResult["Authorization"] = "auth"
    /\ fResult["Content-Type"] = ""

----------------------------------------------------------------------------
(* Properties of the configuration and of the data service *)

\* C22: the mode of the data service is "mock" when the data.mock flag is
\* enabled, also when data.live is enabled too; otherwise "live" when
\* data.live is enabled; otherwise "live" in production and "mock" in
\* development and test; once created, the mode never changes.
C22_DataMode ==
    /\ [](dsMode # "none" =>
            LET mockOn == <<"data.mock">> \in DOMAIN featureFlags.map
                          /\ featureFlags.map[<<"data.mock">>] IN
            LET liveOn == <<"data.live">> \in DOMAIN featureFlags.map
                          /\ featureFlags.map[<<"data.live">>] IN
            /\ mockOn => dsMode = "mock"
            /\ (~mockOn /\ liveOn) => dsMode = "live"
            /\ (~mockOn /\ ~liveOn) =>
                  /\ (dsMode = "live") = (nodeEnv = <<"production">>)
                  /\ nodeEnv \in {<<"development">>, <<"test">>} => dsMode = "mock")
    /\ [][dsMode # "none" => dsMode' = dsMode]_vars

\* both flags are enabled, the service is in mock mode and has been used
C22_Witness ==
    /\ dsMode = "mock"
    /\ isFeatureEnabled(<<"data.mock">>)
    /\ isFeatureEnabled(<<"data.live">>)
    /\ dsCalls = MaxDsCalls

\* C23: parseFeatureFlags returns {list, map} for every input and throws for
\* none; list holds the enabled keys of map; an unset or empty value gives
\* the empty list; malformed JSON that starts with [ or { is read as a
\* comma-separated list.
C23_FlagsFailSoft ==
    cfgBuilt =>
        LET cleaned == trim(IF envFlags.defined THEN envFlags.text ELSE <<>>) IN
        /\ ~featureFlags.threw
        /\ Range(featureFlags.list) =
              {k \in DOMAIN featureFlags.map : featureFlags.map[k]}
        /\ cleaned = <<>> => featureFlags.list = <<>>
        /\ (cleaned # <<>> /\ Head(cleaned) \in {"[", "{"}
            /\ envFlags.json.kind = "error") =>
              /\ featureFlags.list = trimAll(split(cleaned, ","))
              /\ DOMAIN featureFlags.map = Range(featureFlags.list)

\* the malformed value [data.mock,data.live was read as two comma-separated names
C23_Witness ==
    /\ cfgBuilt
    /\ envFlags = Str(<<"[", "data.mock", ",", "data.live">>)
    /\ featureFlags.list = <<<<"[", "data.mock">>, <<"data.live">>>>
    /\ ~featureFlags.threw

\* C24: uploadLogs calls onProgress, when given, once per step of 6 steps,
\* with strictly increasing whole percentages within 0..100 that end at 100,
\* all of them before the promise resolves; the result has uploaded = the
\* number of files and recentUploads = the new records followed by the
\* existing history, cut to 8 entries.
C24_UploadProgress ==
    /\ uOnProgress => Len(uProgress) = (IF uPc = "idle" THEN 0 ELSE uI - 1)
    /\ ~uOnProgress => uProgress = <<>>
    /\ \A k \in 1..Len(uProgress) :
          /\ uProgress[k] \in 0..100
          /\ k > 1 => uProgress[k] > uProgress[k - 1]
    /\ uPc # "done" => uResult = ([uploaded |-> 0 - 1, recentUploads |-> <<>>])
    /\ uPc = "done" =>
          /\ uOnProgress => (Len(uProgress) = 6 /\ uProgress[6] = 100)
          /\ uResult.uploaded = uFiles
          /\ Len(uResult.recentUploads) = Min(8, uFiles + SeedUploads)
          /\ \A k \in 1..Len(uResult.recentUploads) :
                uResult.recentUploads[k] =
                    (IF k <= uFiles THEN <<"new", k - 1>> ELSE <<"seed", k - uFiles>>)

\* six files were uploaded with a progress callback: six calls, the last
\* with 100, and the history cut to eight records
C24_Witness ==
    /\ uPc = "done"
    /\ uOnProgress
    /\ uFiles = 6
    /\ uProgress = <<17, 33, 50, 67, 83, 100>>
    /\ Len(uResult.recentUploads) = 8

\* C25: when uploadAll() finishes, overallStatus is "error" if a file of the
\* batch failed to upload, and "done" only if none failed.
C25_BatchStatus ==
    pgPc = "finished" =>
        /\ pgFailed # {} => pgOverall = "error"
        /\ pgOverall = "done" => pgFailed = {}

\* C30: a named level in any letter case resolves to itself, a number from
\* 0 to 4 to the level of that number, and an unset or empty setting to the
\* default level "info".
\* C26: once the mount effect's cleanup has run, the page has no device-update
\* subscription and no polling timer, and boot() has started neither after it,
\* also when the page unmounts while its first fetch is pending
C26_CleanupOnUnmount ==
    cleanedUp => ~subscribed /\ ~pollTimerRef /\ startedLate = {}

\* C27: the device list keeps pairwise distinct ids; a handled device:update
\* for a known id leaves the list's ids as they were and gives that entry the
\* event's fields, and one for an unknown id adds exactly one entry
C27_DedupById ==
    /\ \A i, j \in 1..Len(devices) : devices[i].id = devices[j].id => i = j
    /\ lastUpdate.handled =>
           LET inc == lastUpdate.incoming[1]
               prev == lastUpdate.prev
           IN  IF \E i \in 1..Len(prev) : prev[i].id = inc.id
               THEN /\ Len(devices) = Len(prev)
                    /\ \A i \in 1..Len(prev) :
                           /\ devices[i].id = prev[i].id
                           /\ prev[i].id = inc.id =>
                                  \A k \in DOMAIN inc : devices[i][k] = inc[k]
                           /\ prev[i].id # inc.id => devices[i] = prev[i]
               ELSE /\ Len(devices) = Len(prev) + 1
                    /\ Cardinality({i \in 1..Len(devices) : devices[i].id = inc.id}) = 1
                    /\ \A i \in 1..Len(prev) :
                           \E j \in 1..Len(devices) : devices[j] = prev[i]

\* the same update delivered again to a list of two devices; an update for an
\* unknown id
C27_Witness ==
    /\ lastUpdate.handled
    /\ Len(lastUpdate.prev) = 2
    /\ devices = lastUpdate.prev
    /\ lastUpdate.incoming[1] = Device(2, FALSE)

\* C28: connected is true only while the current socket is open (or in its
\* closing handshake), and an open or close event of a socket that is not the
\* current one changes neither connected, nor the attempt counter, nor the
\* reconnect timer
C28_StaleSocketEvents ==
    /\ [](connected => ws # 0 /\ socks[ws] \in {"OPEN", "CLOSING"})
    /\ [][(last'.op \in {"onopen", "onclose"} /\ last'.sock # ws) =>
              /\ connected' = connected
              /\ reconnectAttempt' = reconnectAttempt
              /\ reconnectTimer' = reconnectTimer]_vars

\* C29: a call of requestJson rejected for a non-2xx response carries the
\* payload's message when the payload has one, and "HTTP <status>
\* (<statusText>)" otherwise
C29_HttpErrorMessage ==
    (rKind = "requestJson" /\ rPc = "done" /\ outcome.kind = "rejected"
     /\ outcome.code = "HTTP")
    => outcome.message = (IF rPayload = "withMessage" THEN Chars("nope") ELSE Chars("HTTP"))

C30_LogLevel ==
    cfgBuilt =>
        LET v == trim(lowerCase(IF envLogLevel.defined THEN envLogLevel.text ELSE <<>>)) IN
        /\ v \in Range(LOG_LEVELS) => logLevel = v
        /\ \A n \in 0..4 : v = <<Digits[n + 1]>> => logLevel = LOG_LEVELS[n + 1]
        /\ v = <<>> => logLevel = <<"i","n","f","o">>

====
